---- MODULE Spec2Model ----
(***************************************************************************)
(* chs-onboard: tool dependency resolver, phase split, phased execution   *)
(* engine and network gate, modelled from installer.go and main.go.       *)
(***************************************************************************)
EXTENDS Integers, Sequences, FiniteSets, TLC

\* ------------------------------------------------------------------------
\* Bounds of the model
\* ------------------------------------------------------------------------

\* longest request sequence handed to resolveTools by the resolver harness
MaxReq == 2

\* how many times in a row the program is started on the machine
MaxRuns == 2

\* how many keepalive ticks fire during one run
MaxTicks == 1

\* ------------------------------------------------------------------------
\* Static catalog (installer.go)
\* ------------------------------------------------------------------------

toolIDs ==
    {"xcode", "homebrew", "pyenv", "python313", "python396",
     "pyenv_venv_ncpcli", "iterm2", "allproxy", "sparta_pki", "hops_cli",
     "gnoc_helper", "stencil", "silencer", "ncpcli", "jit_pass"}

depMap ==
    [t \in toolIDs |->
        CASE t = "xcode"             -> << >>
          [] t = "homebrew"          -> <<"xcode">>
          [] t = "pyenv"             -> <<"homebrew">>
          [] t = "python313"         -> <<"pyenv">>
          [] t = "python396"         -> <<"pyenv">>
          [] t = "pyenv_venv_ncpcli" -> <<"python396">>
          [] t = "iterm2"            -> << >>
          [] t = "allproxy"          -> <<"python313", "homebrew">>
          [] t = "sparta_pki"        -> << >>
          [] t = "hops_cli"          -> <<"python313", "sparta_pki">>
          [] t = "gnoc_helper"       -> <<"pyenv_venv_ncpcli", "allproxy">>
          [] t = "stencil"           -> <<"pyenv_venv_ncpcli">>
          [] t = "silencer"          -> << >>
          [] t = "ncpcli"            -> <<"pyenv_venv_ncpcli">>
          [] t = "jit_pass"          -> << >>]

\* mutant: xcode is missing from the public-phase set
phase1ToolsWithoutXcode ==
    {"iterm2", "homebrew", "pyenv", "python313", "python396",
     "pyenv_venv_ncpcli"}

phase1Tools ==
    {"iterm2", "xcode", "homebrew", "pyenv", "python313", "python396",
     "pyenv_venv_ncpcli"}

Range(s) == {s[i] : i \in DOMAIN s}

\* ------------------------------------------------------------------------
\* resolveTools (installer.go): depth-first visit threading the visited
\* map and the order slice
\* ------------------------------------------------------------------------

\* mutant: the visited check is missing
neverVisited(t, st) == FALSE

\* `if visited[t] { return }`
alreadyVisited(t, st) == t \in st.visited

Reverse(s) == [i \in 1..Len(s) |-> s[Len(s) + 1 - i]]

\* mutant: prerequisites walked from the last declared to the first
prerequisitesReversed(t) == Reverse(depMap[t])

\* `range depMap[t]`: the declared prerequisites, in declared order
prerequisites(t) == depMap[t]

\* mutant: the tool is put at the front of the order
placeBefore(t, st) == [st EXCEPT !.order = <<t>> \o @]

\* `order = append(order, t)`
place(t, st) == [st EXCEPT !.order = Append(@, t)]

RECURSIVE visit(_, _), visitEach(_, _)

visit(t, st) ==
    IF alreadyVisited(t, st)
    THEN st
    ELSE place(t, visitEach(prerequisites(t),
                            [st EXCEPT !.visited = @ \cup {t}]))

\* a `for _, x := range xs { visit(x) }` loop
visitEach(xs, st) ==
    IF xs = << >> THEN st ELSE visitEach(Tail(xs), visit(Head(xs), st))

resolveTools(requested) ==
    visitEach(requested, [visited |-> {}, order |-> << >>]).order

\* ------------------------------------------------------------------------
\* Phase split (main.go)
\* ------------------------------------------------------------------------

RECURSIVE splitLoop(_, _), splitLoopPrepending(_, _)

\* mutant: a private-phase tool is prepended instead of appended
splitLoopPrepending(ts, acc) ==
    IF ts = << >> THEN acc
    ELSE splitLoopPrepending(Tail(ts),
            IF Head(ts) \in phase1Tools
            THEN [acc EXCEPT !.p1 = Append(@, Head(ts))]
            ELSE [acc EXCEPT !.p3 = <<Head(ts)>> \o @])

\* `for _, t := range tools { if phase1Tools[t] {p1 = append(p1, t)} else {p3 = append(p3, t)} }`
splitLoop(ts, acc) ==
    IF ts = << >> THEN acc
    ELSE splitLoop(Tail(ts),
            IF Head(ts) \in phase1Tools
            THEN [acc EXCEPT !.p1 = Append(@, Head(ts))]
            ELSE [acc EXCEPT !.p3 = Append(@, Head(ts))])

splitPhases(ts) == splitLoop(ts, [p1 |-> << >>, p3 |-> << >>])

\* ------------------------------------------------------------------------
\* State
\* ------------------------------------------------------------------------

VARIABLES
    \* resolver harness
    rpc,        \* "idle", "input", "resolved", "reresolved", "classified"
    requested,  \* the request sequence handed to resolveTools
    order,      \* resolveTools(requested)
    again,      \* resolveTools(order)
    parts,      \* the phase split of order
    \* the process (main.go)
    pc,         \* position of the main flow
    runs,       \* how many times the program has been started
    dryRun,     \* --dry-run
    listFlag,   \* --list
    onlyFlag,   \* --only, split at the commas; << >> when the flag is empty
    exitCode,   \* -1 while running, else the exit status
    logOpen,    \* log.f is an open file
    keepalive,  \* "none", "running", "stopped": the sudo keepalive goroutine
    cachedSSHPublicKey,       \* "", "dry-run" (placeholder) or "key"
    tools,      \* the resolved plan
    p1,         \* public-phase tools of the plan
    p3,         \* private-phase tools of the plan
    bastionConfigsSelected,
    phase,      \* which runPhase call is active: "none", "phase1", "phase3"
    idx,        \* index of runPhase's loop, 1-based
    invoked,    \* history: tools whose installer procedure was entered
    succeeded,  \* history: tools whose installer returned nil
    failed,     \* history: the tool whose installer returned an error, or "none"
    gate,       \* history: "before", "entered", "returned" (waitForVPN)
    hostIdx,    \* waitForVPN: index of the host being dialled
    allUp,      \* waitForVPN: allUp
    round,      \* history: dial results of the current polling round
    stateData,  \* Run State in memory: the keys of CompletedTools
    stateLoaded,    \* history: loadRunState has run in this process
    forceReinstall, \* the package variable forceReinstall
    fs,         \* the files of the machine that the program touches
    fs0,        \* history: fs when the first run started
    allDry,     \* history: every run so far was started with --dry-run
    out,        \* history: what the run printed: names listed, unknown names reported
    preflight,  \* history: the preflight steps performed, each with its result
    ticks       \* history: keepalive ticks executed in this run

\* the installer harness: one installer called repeatedly on one machine
VARIABLES
    ipc,        \* "idle" outside the installer harness, else "ready"
    itarget,    \* the tool whose installer is called, or "sshpass"
    machine,    \* the paths that exist on the machine, and ~/.zshrc
    calls,      \* how many calls have returned
    last,       \* history: what the last call did and returned
    full,       \* history: a call returned nil with every sub-step done
    wasFull     \* history: full, as it was when the last call started

\* the log harness: the main flow and the keepalive goroutine use the log
VARIABLES
    lpc,        \* position of each flow: "main" and "ticker"
    lret,       \* where each flow continues after its logWrite
    lmu,        \* log.mu: the flow that holds it, or "none"
    lfile,      \* log.f: "nil", "open" or "closed"
    lencoder,   \* log.encoder is not nil
    lphase,     \* log.phase
    lentry,     \* per flow, the Phase field of the logEntry it has built
    records,    \* run.log: the records appended, in file order
    lops,       \* how many log operations the main flow has started
    lticks,     \* how many ticks the goroutine has started
    cancelled,  \* the keepalive context is cancelled
    lateEncode  \* history: Encode was called after logClose

\* the Run State harness: the state store of main.go:264-353
VARIABLES
    completedTools, \* stateData.CompletedTools: a set of [tool, at] entries
    stateFile,      \* ~/.chs-onboard/state.json
    clock,          \* time.Now(), in seconds
    slast,          \* history: the last operation, its argument and result
    sops            \* how many operations have returned

\* the cleanup harness: the registry of part_001:1-36 and the flows using it
VARIABLES
    cleanupMu,  \* the flow that holds cleanupMu, or "none"
    cleanupFns, \* the registered functions, in order of registration
    cleanupRun, \* the package variable cleanupRun
    kpc,        \* position of each flow
    kret,       \* where each flow continues after the call it is in
    karg,       \* per flow, the argument of its registerCleanup call
    kfns,       \* per flow, the part of its local fns not yet called
    katcall,    \* history: per flow, the registry when it called runCleanup
    ksnaps,     \* history: the calls that went on to run functions
    kran,       \* history: the functions called, in order
    kdone,      \* history: a call has left the loop over fns
    kcalls      \* how many calls the flows have made

\* the cycle harness: resolveTools step by step on an arbitrary graph
VARIABLES
    cgraph,     \* the dependency map the resolver walks
    crequested, \* the argument of resolveTools
    cst,        \* the locals visited and order
    cstack,     \* the calls of visit in progress, innermost last
    cidx,       \* position of the loop over requested
    cpc         \* "run", or "done" after `return order`

rvars == <<rpc, requested, order, again, parts>>

cvars == <<cgraph, crequested, cst, cstack, cidx, cpc>>

kvars == <<cleanupMu, cleanupFns, cleanupRun, kpc, kret, karg, kfns, katcall,
           ksnaps, kran, kdone, kcalls>>

svars == <<completedTools, stateFile, clock, slast, sops>>

lvars == <<lpc, lret, lmu, lfile, lencoder, lphase, lentry, records, lops,
           lticks, cancelled, lateEncode>>

\* the harnesses other than the log harness
ovars == <<svars, kvars, cvars>>

hvars == <<lvars, ovars>>

ivars == <<ipc, itarget, machine, calls, last, full, wasFull>>

pvars == <<pc, runs, dryRun, listFlag, onlyFlag, exitCode, logOpen, keepalive,
           cachedSSHPublicKey, tools, p1, p3, bastionConfigsSelected, phase,
           idx, invoked, succeeded, failed, gate, hostIdx, allUp, round,
           stateData, stateLoaded, forceReinstall, fs, fs0, allDry,
           out, preflight, ticks>>

vars == <<rvars, pvars, ivars, hvars>>

\* what the Run State harness leaves alone
notStore == <<rvars, pvars, ivars, lvars, kvars, cvars>>

\* what the cleanup harness leaves alone
notCleanup == <<rvars, pvars, ivars, lvars, svars, cvars>>

\* what the cycle harness leaves alone
notCycle == <<rvars, pvars, ivars, lvars, svars, kvars>>

BoundedSeq(S, n) == UNION {[1..k -> S] : k \in 0..n}

Requests == BoundedSeq(toolIDs, MaxReq)

\* a machine on which the program has never run
FreshFS(key) ==
    [zshrc       |-> << >>,   \* ~/.zshrc: the guard lines of its blocks, in file order
     logDir      |-> FALSE,   \* ~/.chs-onboard exists
     runLog      |-> 0,       \* run.log: number of session_start records
     stateFile   |-> [exists |-> FALSE, completed |-> {}],
     sshKey      |-> key,     \* ~/.ssh/id_ed25519.pub or id_rsa.pub exists
     renamed     |-> FALSE,   \* the local account was renamed to the GUID
     pyenvGlobal |-> FALSE,   \* `pyenv global 3.13.2 ncpcli` has been applied
     sshpass     |-> FALSE]   \* the sshpass binary is installed

\* the per-process variables at process start
ProcessStart ==
    /\ pc = "main"
    /\ exitCode = -1
    /\ logOpen = FALSE
    /\ keepalive = "none"
    /\ cachedSSHPublicKey = ""
    /\ tools = << >>
    /\ p1 = << >>
    /\ p3 = << >>
    /\ bastionConfigsSelected = FALSE
    /\ phase = "none"
    /\ idx = 1
    /\ invoked = << >>
    /\ succeeded = {}
    /\ failed = "none"
    /\ gate = "before"
    /\ hostIdx = 1
    /\ allUp = TRUE
    /\ round = << >>
    /\ stateData = {}
    /\ stateLoaded = FALSE
    /\ forceReinstall = FALSE
    /\ out = [listed |-> {}, unknown |-> << >>, shown |-> << >>]
    /\ preflight = << >>
    /\ ticks = << >>

\* what a call reports; before the first call, nothing
NoCall == [err |-> FALSE, ran |-> << >>, failed |-> {}, hollow |-> {}]

LogIdle ==
    /\ lpc = [f \in {"main", "ticker"} |-> "idle"]
    /\ lret = [f \in {"main", "ticker"} |-> "idle"]
    /\ lmu = "none"
    /\ lfile = "nil"
    /\ lencoder = FALSE
    /\ lphase = ""
    /\ lentry = [f \in {"main", "ticker"} |-> ""]
    /\ records = << >>
    /\ lops = 0
    /\ lticks = 0
    /\ cancelled = FALSE
    /\ lateEncode = FALSE

AbsentFile == [exists |-> FALSE, valid |-> FALSE, entries |-> << >>]
NoOp == [op |-> "none", t |-> "", err |-> FALSE, answer |-> FALSE]

StoreIdle ==
    /\ completedTools = {}
    /\ stateFile = AbsentFile
    /\ clock = 0
    /\ slast = NoOp
    /\ sops = 0

KFlows == {"a", "b"}

\* no cleanup function is registered and no flow is inside a call
CleanupStart ==
    /\ cleanupMu = "none"
    /\ cleanupFns = << >>
    /\ cleanupRun = FALSE
    /\ kpc = [f \in KFlows |-> "idle"]
    /\ kret = [f \in KFlows |-> "idle"]
    /\ karg = [f \in KFlows |-> "nil"]
    /\ kfns = [f \in KFlows |-> << >>]
    /\ katcall = [f \in KFlows |-> << >>]
    /\ ksnaps = << >>
    /\ kran = << >>
    /\ kdone = FALSE
    /\ kcalls = 0

Nodes == {"a", "b", "c"}

\* resolveTools has not been called
CycleIdle ==
    /\ cgraph = [t \in Nodes |-> << >>]
    /\ crequested = << >>
    /\ cst = [visited |-> {}, order |-> << >>]
    /\ cstack = << >>
    /\ cidx = 1
    /\ cpc = "done"

\* the harnesses other than the log harness are idle
OthersIdle == StoreIdle /\ CleanupStart /\ CycleIdle

\* the harnesses other than the one a specification is about are idle
HarnessIdle == LogIdle /\ OthersIdle

InstallIdle ==
    /\ ipc = "idle"
    /\ itarget = "none"
    /\ machine = [paths |-> {}, zshrc |-> << >>]
    /\ calls = 0
    /\ last = NoCall
    /\ full = FALSE
    /\ wasFull = FALSE

ResolverIdle ==
    /\ rpc = "idle"
    /\ requested = << >>
    /\ order = << >>
    /\ again = << >>
    /\ parts = [p1 |-> << >>, p3 |-> << >>]

InitResolve ==
    /\ rpc = "input"
    /\ requested \in Requests
    /\ order = << >>
    /\ again = << >>
    /\ parts = [p1 |-> << >>, p3 |-> << >>]
    /\ ProcessStart
    /\ runs = 0
    /\ dryRun = FALSE
    /\ listFlag = FALSE
    /\ onlyFlag = << >>
    /\ fs = FreshFS(FALSE)
    /\ fs0 = fs
    /\ allDry = FALSE
    /\ InstallIdle
    /\ HarnessIdle

Resolve ==
    /\ rpc = "input"
    /\ order' = resolveTools(requested)
    /\ rpc' = "resolved"
    /\ UNCHANGED <<requested, again, parts, pvars, ivars, hvars>>

ResolveAgain ==
    /\ rpc = "resolved"
    /\ again' = resolveTools(order)
    /\ rpc' = "reresolved"
    /\ UNCHANGED <<requested, order, parts, pvars, ivars, hvars>>

Classify ==
    /\ rpc = "reresolved"
    /\ parts' = splitPhases(order)
    /\ rpc' = "classified"
    /\ UNCHANGED <<requested, order, again, pvars, ivars, hvars>>

NextResolve == Resolve \/ ResolveAgain \/ Classify

SpecResolve == InitResolve /\ [][NextResolve]_vars

\* ------------------------------------------------------------------------
\* Helpers of the main flow
\* ------------------------------------------------------------------------

\* names accepted by --only; every name maps to the toolID of the same spelling
\* mutant: one more accepted name, for a tool outside the catalog
validToolIDsWithSshpass == [n \in toolIDs \cup {"sshpass"} |-> n]

validToolIDs == [n \in toolIDs |-> n]

bastionConfigsOption == "bastion_configs (coming soon)"

\* the tokens a --only value is made of in this model
OnlyTokens == toolIDs \cup {"bogus", " iterm2 "}

\* strings.TrimSpace on the tokens of the model
TrimSpace(s) == IF s = " iterm2 " THEN "iterm2" ELSE s

\* mutant: the loop ends after the first token
parseLoopFirstOnly(toks, req) ==
    IF toks = << >> THEN req
    ELSE LET s == TrimSpace(Head(toks))
         IN  IF s \in DOMAIN validToolIDs
             THEN Append(req, validToolIDs[s])
             ELSE req

RECURSIVE parseLoop(_, _)

\* the loop of parseOnlyFlag: known names are kept, unknown ones reported
parseLoop(toks, req) ==
    IF toks = << >> THEN req
    ELSE LET s == TrimSpace(Head(toks))
         IN  parseLoop(Tail(toks),
                       IF s \in DOMAIN validToolIDs
                       THEN Append(req, validToolIDs[s])
                       ELSE req)

parseOnlyFlag(raw) == resolveTools(parseLoop(raw, << >>))

\* the `unknown tool` lines parseOnlyFlag prints, one per rejected token
unknownReported(raw) ==
    LET trimmed == [i \in DOMAIN raw |-> TrimSpace(raw[i])]
    IN  SelectSeq(trimmed, LAMBDA n : n \notin DOMAIN validToolIDs)

hasTool(ts, target) == target \in Range(ts)

\* promptToolSelection after the dialog returned selectedNames
promptToolSelection(selectedNames) ==
    LET known == SelectSeq(selectedNames,
                           LAMBDA n : n # bastionConfigsOption
                                      /\ n \in DOMAIN validToolIDs)
        selected == [i \in DOMAIN known |-> validToolIDs[known[i]]]
    IN  [selected |-> IF hasTool(selected, "gnoc_helper")
                      THEN selected \o <<"stencil", "silencer", "jit_pass">>
                      ELSE selected,
         bastionSelected |-> hasTool(selectedNames, bastionConfigsOption)]

\* the guard lines of the blocks this program appends to ~/.zshrc
guardHomebrew == "# BEGIN: Homebrew"
guardPyenv == "# BEGIN: pyenv"
guardSleep == "# BEGIN: Sleep Controls"

\* strings.Contains over the file: some block of the file has this guard line
fileContains(file, substr) == \E i \in DOMAIN file : file[i] = substr

\* mutant: the guard is not looked for
appendToZshrcUnguarded(guardString, zshrc, dry, openOk) ==
    IF dry THEN [zshrc |-> zshrc, err |-> FALSE]
    ELSE IF ~openOk THEN [zshrc |-> zshrc, err |-> TRUE]
    ELSE [zshrc |-> Append(zshrc, guardString), err |-> FALSE]

\* mutant: the simulate-only check is missing
appendToZshrcAlways(guardString, zshrc, dry, openOk) ==
    IF fileContains(zshrc, guardString) THEN [zshrc |-> zshrc, err |-> FALSE]
    ELSE IF ~openOk THEN [zshrc |-> zshrc, err |-> TRUE]
    ELSE [zshrc |-> Append(zshrc, guardString), err |-> FALSE]

\* appendToZshrc: skip when the guard is present, then skip in simulate-only
\* mode, then open (may fail) and append the block
appendToZshrc(guardString, zshrc, dry, openOk) ==
    IF fileContains(zshrc, guardString) THEN [zshrc |-> zshrc, err |-> FALSE]
    ELSE IF dry THEN [zshrc |-> zshrc, err |-> FALSE]
    ELSE IF ~openOk THEN [zshrc |-> zshrc, err |-> TRUE]
    ELSE [zshrc |-> Append(zshrc, guardString), err |-> FALSE]

writeBaseZshrcBlocks(zshrc, dry, openOk) ==
    LET r1 == appendToZshrc(guardHomebrew, zshrc, dry, openOk)
    IN  IF r1.err THEN r1 ELSE appendToZshrc(guardPyenv, r1.zshrc, dry, openOk)

configureNoSleepAliases(zshrc, dry, openOk) ==
    appendToZshrc(guardSleep, zshrc, dry, openOk)

\* the private endpoints probed by waitForVPN
hosts == <<"artifactory.oci.oraclecorp.com:443",
           "bitbucket.oci.oraclecorp.com:7999">>

\* ------------------------------------------------------------------------
\* The main flow (main.go), one action per step
\* ------------------------------------------------------------------------

flagv == <<runs, dryRun, listFlag, onlyFlag, allDry, fs0, forceReinstall>>
planv == <<tools, p1, p3, bastionConfigsSelected>>
loopv == <<phase, idx, invoked, succeeded, failed>>
gatev == <<gate, hostIdx, allUp, round>>
statev == <<stateData, stateLoaded>>
histv == <<out, preflight, ticks>>

\* --only values: every single token, and pairs mixing known and unknown names
OnlyInputs ==
    {<<a>> : a \in OnlyTokens}
    \cup {<<a, b>> : a \in {"bogus", "hops_cli", "iterm2"},
                     b \in {"bogus", "gnoc_helper", "xcode"}}

\* what the operator may pick in the selection dialog
UISelections ==
    {<< >>,
     <<bastionConfigsOption>>,
     <<"iterm2">>,
     <<"allproxy", bastionConfigsOption>>,
     <<"gnoc_helper", "hops_cli">>,
     <<"iterm2", "xcode", "homebrew", "pyenv", "python313", "python396",
       "pyenv_venv_ncpcli", "allproxy", "sparta_pki", "hops_cli">>}

Init ==
    /\ ResolverIdle
    /\ InstallIdle
    /\ HarnessIdle
    /\ ProcessStart
    /\ runs = 1
    /\ dryRun \in BOOLEAN
    /\ listFlag \in BOOLEAN
    /\ onlyFlag \in OnlyInputs \cup {<< >>}
    /\ fs \in {FreshFS(k) : k \in BOOLEAN}
    /\ fs0 = fs
    /\ allDry = dryRun

\* printToolList: the names printed, one per key of validToolIDs
printToolList == DOMAIN validToolIDs

\* mutant: the --list check is missing
MainIgnoresList ==
    /\ pc = "main"
    /\ pc' = "logInit"
    /\ UNCHANGED <<rvars, ivars, hvars, histv, flagv, planv, loopv, gatev, statev, logOpen,
                   keepalive, cachedSSHPublicKey, fs, exitCode>>

\* main, lines 16-27: parse the flags; --list prints and returns
Main ==
    /\ pc = "main"
    /\ IF listFlag
       THEN /\ out' = [out EXCEPT !.listed = printToolList]
            /\ pc' = "exit"
            /\ exitCode' = 0
       ELSE pc' = "logInit" /\ UNCHANGED <<exitCode, out>>
    /\ UNCHANGED <<rvars, ivars, hvars, preflight, ticks, flagv, planv, loopv, gatev, statev, logOpen,
                   keepalive, cachedSSHPublicKey, fs>>

\* logInit, with main's handling of its error (lines 29-38)
LogInit ==
    /\ pc = "logInit"
    /\ \E ok \in BOOLEAN :
          IF ok
          THEN /\ fs' = [fs EXCEPT !.logDir = TRUE, !.runLog = @ + 1]
               /\ logOpen' = TRUE
               /\ pc' = "sudo"
               /\ UNCHANGED exitCode
          ELSE /\ pc' = "exit"
               /\ exitCode' = 1
               /\ UNCHANGED <<fs, logOpen>>
    /\ UNCHANGED <<rvars, ivars, hvars, histv, flagv, planv, loopv, gatev, statev, keepalive,
                   cachedSSHPublicKey>>

\* main, lines 40-50: cache sudo and start the keepalive goroutine
StartSudoKeepalive ==
    /\ pc = "sudo"
    /\ IF dryRun
       THEN pc' = "preflightNet" /\ UNCHANGED keepalive
       ELSE \E ok \in BOOLEAN :
               IF ok
               THEN pc' = "preflightNet" /\ keepalive' = "running"
               ELSE pc' = "logFatal" /\ UNCHANGED keepalive
    /\ UNCHANGED <<rvars, ivars, hvars, histv, flagv, planv, loopv, gatev, statev, exitCode,
                   logOpen, cachedSSHPublicKey, fs>>

\* mutant: the error of the net check is dropped
PreflightNetCheckIgnored ==
    /\ pc = "preflightNet"
    /\ \E ok \in BOOLEAN :
          /\ pc' = "preflightSSH"
          /\ preflight' = Append(preflight, [step |-> "net", ok |-> ok])
    /\ UNCHANGED <<rvars, ivars, hvars, out, ticks, flagv, planv, loopv, gatev, statev,
                   exitCode, logOpen, keepalive, cachedSSHPublicKey, fs>>

\* preflightNetCheck
PreflightNetCheck ==
    /\ pc = "preflightNet"
    /\ \E ok \in BOOLEAN :
          /\ pc' = IF ok THEN "preflightSSH" ELSE "logFatal"
          /\ preflight' = Append(preflight, [step |-> "net", ok |-> ok])
    /\ UNCHANGED <<rvars, ivars, hvars, out, ticks, flagv, planv, loopv, gatev, statev, exitCode,
                   logOpen, keepalive, cachedSSHPublicKey, fs>>

\* preflightSSHKeyEnsure
PreflightSSHKeyEnsure ==
    /\ pc = "preflightSSH"
    /\ IF fs.sshKey
       THEN /\ UNCHANGED fs
            /\ \E readOk \in BOOLEAN :
                  IF readOk
                  THEN pc' = "preflightId" /\ cachedSSHPublicKey' = "key"
                  ELSE pc' = "logFatal" /\ UNCHANGED cachedSSHPublicKey
       ELSE IF dryRun
       THEN /\ cachedSSHPublicKey' = "dry-run"
            /\ pc' = "preflightId"
            /\ UNCHANGED fs
       ELSE \E r \in {"cancelled", "keygen failed", "generated",
                       "unreadable"} :
               CASE r = "generated" ->
                       /\ fs' = [fs EXCEPT !.sshKey = TRUE]
                       /\ cachedSSHPublicKey' = "key"
                       /\ pc' = "preflightId"
                 [] r = "unreadable" ->
                       \* the key was generated, reading it back failed
                       /\ fs' = [fs EXCEPT !.sshKey = TRUE]
                       /\ pc' = "logFatal"
                       /\ UNCHANGED cachedSSHPublicKey
                 [] OTHER ->
                       /\ pc' = "logFatal"
                       /\ UNCHANGED <<fs, cachedSSHPublicKey>>
    /\ preflight' = Append(preflight,
                           [step |-> "ssh", ok |-> pc' # "logFatal"])
    /\ UNCHANGED <<rvars, ivars, hvars, out, ticks, flagv, planv, loopv, gatev, statev, exitCode,
                   logOpen, keepalive>>

\* preflightIdentity
PreflightIdentity ==
    /\ pc = "preflightId"
    /\ \E r \in {"no guid", "match", "choice cancelled", "Cancel",
                 "Manual steps", "Auto-rename"} :
          CASE r = "match" ->
                  pc' = "zshrc" /\ UNCHANGED <<fs, exitCode>>
            [] r = "Auto-rename" ->
                  \* autoRenameLocalUser, then os.Exit(0)
                  IF dryRun
                  THEN pc' = "exit" /\ exitCode' = 0 /\ UNCHANGED fs
                  ELSE \E ok \in BOOLEAN :
                          IF ok
                          THEN /\ fs' = [fs EXCEPT !.renamed = TRUE]
                               /\ pc' = "exit"
                               /\ exitCode' = 0
                          ELSE pc' = "logFatal" /\ UNCHANGED <<fs, exitCode>>
            [] OTHER ->
                  pc' = "logFatal" /\ UNCHANGED <<fs, exitCode>>
    /\ preflight' = Append(preflight,
                           [step |-> "id", ok |-> pc' # "logFatal"])
    /\ UNCHANGED <<rvars, ivars, hvars, out, ticks, flagv, planv, loopv, gatev, statev, logOpen,
                   keepalive, cachedSSHPublicKey>>

\* main, lines 60-66: writeBaseZshrcBlocks, then configureNoSleepAliases
WriteZshrc ==
    /\ pc = "zshrc"
    /\ \E openOk \in BOOLEAN :
          LET r1 == writeBaseZshrcBlocks(fs.zshrc, dryRun, openOk)
              r2 == IF r1.err THEN r1
                    ELSE configureNoSleepAliases(r1.zshrc, dryRun, openOk)
          IN  /\ fs' = [fs EXCEPT !.zshrc = r2.zshrc]
              /\ pc' = IF r2.err THEN "logFatal" ELSE "resolve"
    /\ UNCHANGED <<rvars, ivars, hvars, histv, flagv, planv, loopv, gatev, statev, exitCode,
                   logOpen, keepalive, cachedSSHPublicKey>>

\* mutant: an empty result of parseOnlyFlag does not end the process
ResolveOnlyNoExit ==
    /\ pc = "resolve"
    /\ onlyFlag # << >>
    /\ tools' = parseOnlyFlag(onlyFlag)
    /\ out' = [out EXCEPT !.unknown = unknownReported(onlyFlag)]
    /\ pc' = "split"
    /\ UNCHANGED <<rvars, ivars, hvars, preflight, ticks, flagv, p1, p3, bastionConfigsSelected,
                   loopv, gatev, statev, logOpen, keepalive, cachedSSHPublicKey,
                   fs, exitCode>>

\* main, lines 68-76: --only given
ResolveOnly ==
    /\ pc = "resolve"
    /\ onlyFlag # << >>
    /\ tools' = parseOnlyFlag(onlyFlag)
    /\ out' = [out EXCEPT !.unknown = unknownReported(onlyFlag)]
    /\ IF Len(tools') = 0
       THEN pc' = "exit" /\ exitCode' = 1
       ELSE pc' = "split" /\ UNCHANGED exitCode
    /\ UNCHANGED <<rvars, ivars, hvars, preflight, ticks, flagv, p1, p3, bastionConfigsSelected, loopv, gatev,
                   statev, logOpen, keepalive, cachedSSHPublicKey, fs>>

\* main, lines 77-88: interactive selection
ResolveSelection ==
    /\ pc = "resolve"
    /\ onlyFlag = << >>
    /\ \/ \* the dialog failed
          /\ pc' = "logFatal"
          /\ UNCHANGED <<tools, bastionConfigsSelected>>
       \/ \E names \in UISelections :
             LET sel == promptToolSelection(names)
             IN  IF Len(sel.selected) = 0 /\ ~sel.bastionSelected
                 THEN /\ pc' = "return"
                      /\ UNCHANGED <<tools, bastionConfigsSelected>>
                 ELSE /\ tools' = resolveTools(sel.selected)
                      /\ bastionConfigsSelected' = sel.bastionSelected
                      /\ pc' = "split"
    /\ UNCHANGED <<rvars, ivars, hvars, histv, flagv, p1, p3, loopv, gatev, statev, exitCode,
                   logOpen, keepalive, cachedSSHPublicKey, fs>>

\* main, lines 90-102: split the plan, enter phase 1
Split ==
    /\ pc = "split"
    /\ p1' = splitPhases(tools).p1
    /\ p3' = splitPhases(tools).p3
    /\ phase' = "phase1"
    /\ idx' = 1
    /\ pc' = "runPhase"
    /\ UNCHANGED <<rvars, ivars, hvars, histv, flagv, tools, bastionConfigsSelected, invoked,
                   succeeded, failed, gatev, statev, exitCode, logOpen,
                   keepalive, cachedSSHPublicKey, fs>>

phaseTools == IF phase = "phase1" THEN p1 ELSE p3

\* mutant: a failed installer does not stop the loop
RunToolBestEffort ==
    /\ pc = "runPhase"
    /\ idx <= Len(phaseTools)
    /\ LET t == phaseTools[idx]
       IN  IF dryRun
           THEN /\ idx' = idx + 1
                /\ UNCHANGED <<pc, invoked, succeeded, failed>>
           ELSE /\ invoked' = Append(invoked, t)
                /\ idx' = idx + 1
                /\ \E ok \in BOOLEAN :
                      IF ok
                      THEN /\ succeeded' = succeeded \cup {t}
                           /\ UNCHANGED <<pc, failed>>
                      ELSE /\ failed' = IF failed = "none" THEN t ELSE failed
                           /\ UNCHANGED <<pc, succeeded>>
    /\ UNCHANGED <<rvars, ivars, hvars, histv, flagv, planv, phase, gatev, statev, exitCode,
                   logOpen, keepalive, cachedSSHPublicKey, fs>>

\* mutant: runTool without the dry-run return
RunToolNoDryRun ==
    /\ pc = "runPhase"
    /\ idx <= Len(phaseTools)
    /\ LET t == phaseTools[idx]
       IN  /\ invoked' = Append(invoked, t)
           /\ \E ok \in BOOLEAN :
                 IF ok
                 THEN /\ succeeded' = succeeded \cup {t}
                      /\ idx' = idx + 1
                      /\ UNCHANGED <<pc, failed>>
                 ELSE /\ failed' = t
                      /\ pc' = "logFatal"
                      /\ UNCHANGED <<idx, succeeded>>
    /\ UNCHANGED <<rvars, ivars, hvars, histv, flagv, planv, phase, gatev, statev, exitCode,
                   logOpen, keepalive, cachedSSHPublicKey, fs>>

\* one iteration of runPhase: runTool(t); an error ends the loop and main
\* calls logFatal
RunTool ==
    /\ pc = "runPhase"
    /\ idx <= Len(phaseTools)
    /\ LET t == phaseTools[idx]
       IN  IF dryRun
           THEN \* runTool logs and returns nil before the switch
                /\ idx' = idx + 1
                /\ UNCHANGED <<pc, invoked, succeeded, failed>>
           ELSE /\ invoked' = Append(invoked, t)
                /\ \E ok \in BOOLEAN :
                      IF ok
                      THEN /\ succeeded' = succeeded \cup {t}
                           /\ idx' = idx + 1
                           /\ UNCHANGED <<pc, failed>>
                      ELSE /\ failed' = t
                           /\ pc' = "logFatal"
                           /\ UNCHANGED <<idx, succeeded>>
    /\ UNCHANGED <<rvars, ivars, hvars, histv, flagv, planv, phase, gatev, statev, exitCode,
                   logOpen, keepalive, cachedSSHPublicKey, fs>>

\* runPhase returned nil
RunPhaseDone ==
    /\ pc = "runPhase"
    /\ idx > Len(phaseTools)
    /\ pc' = IF phase = "phase1" THEN "pyenvGlobal" ELSE "done"
    /\ UNCHANGED <<rvars, ivars, hvars, histv, flagv, planv, loopv, gatev, statev, exitCode,
                   logOpen, keepalive, cachedSSHPublicKey, fs>>

\* main, lines 106-110: setPyenvGlobal; a failure is only a warning
SetPyenvGlobal ==
    /\ pc = "pyenvGlobal"
    /\ IF dryRun
       THEN UNCHANGED fs
       ELSE \E ok \in BOOLEAN :
               fs' = [fs EXCEPT !.pyenvGlobal = @ \/ ok]
    /\ pc' = "sshpass"
    /\ UNCHANGED <<rvars, ivars, hvars, histv, flagv, planv, loopv, gatev, statev, exitCode,
                   logOpen, keepalive, cachedSSHPublicKey>>

\* main, lines 112-119: ensureSSHPass when gnoc_helper is in the plan
EnsureSSHPass ==
    /\ pc = "sshpass"
    /\ IF ~hasTool(tools, "gnoc_helper") \/ dryRun \/ fs.sshpass
       THEN pc' = "checkPhase3" /\ UNCHANGED fs
       ELSE \E ok \in BOOLEAN :
               IF ok
               THEN fs' = [fs EXCEPT !.sshpass = TRUE] /\ pc' = "checkPhase3"
               ELSE pc' = "logFatal" /\ UNCHANGED fs
    /\ UNCHANGED <<rvars, ivars, hvars, histv, flagv, planv, loopv, gatev, statev, exitCode,
                   logOpen, keepalive, cachedSSHPublicKey>>

\* mutant: the private phase starts right after the public one
CheckPhase3NoGate ==
    /\ pc = "checkPhase3"
    /\ IF Len(p3) = 0
       THEN pc' = "return" /\ UNCHANGED <<phase, idx>>
       ELSE pc' = "runPhase" /\ phase' = "phase3" /\ idx' = 1
    /\ UNCHANGED <<rvars, ivars, hvars, histv, flagv, planv, invoked, succeeded, failed, gatev,
                   statev, exitCode, logOpen, keepalive, cachedSSHPublicKey,
                   fs>>

\* mutant: the gate is entered without the VPN prompt
CheckPhase3NoPrompt ==
    /\ pc = "checkPhase3"
    /\ pc' = IF Len(p3) = 0 THEN "return" ELSE "waitForVPN"
    /\ UNCHANGED <<rvars, ivars, hvars, histv, flagv, planv, loopv, gatev,
                   statev, exitCode, logOpen, keepalive, cachedSSHPublicKey,
                   fs>>

\* main, lines 121-132: done when there is no private-phase tool, else the
\* VPN prompt
CheckPhase3 ==
    /\ pc = "checkPhase3"
    /\ IF Len(p3) = 0
       THEN pc' = "return" /\ UNCHANGED out
       ELSE /\ pc' = "waitForVPN"
            /\ out' = [out EXCEPT !.shown = Append(@, "uiVPNPrompt")]
    /\ UNCHANGED <<rvars, ivars, hvars, preflight, ticks, flagv, planv, loopv,
                   gatev, statev, exitCode, logOpen, keepalive,
                   cachedSSHPublicKey, fs>>

\* waitForVPN, lines 165-174: entry; simulate-only mode returns at once
WaitForVPN ==
    /\ pc = "waitForVPN"
    /\ IF dryRun
       THEN /\ gate' = "returned"
            /\ pc' = "postVPN"
            /\ UNCHANGED <<hostIdx, allUp, round>>
       ELSE /\ gate' = "entered"
            /\ pc' = "dial"
            /\ hostIdx' = 1
            /\ allUp' = TRUE
            /\ round' = << >>
    /\ UNCHANGED <<rvars, ivars, hvars, histv, flagv, planv, loopv, statev, exitCode, logOpen,
                   keepalive, cachedSSHPublicKey, fs>>

\* mutant: allUp follows the last dial and a failure does not end the round
DialLastWins ==
    /\ pc = "dial"
    /\ \E ok \in BOOLEAN :
          /\ round' = Append(round, ok)
          /\ allUp' = ok
          /\ IF hostIdx = Len(hosts)
             THEN pc' = "roundEnd" /\ UNCHANGED hostIdx
             ELSE hostIdx' = hostIdx + 1 /\ UNCHANGED pc
    /\ UNCHANGED <<rvars, ivars, hvars, histv, flagv, planv, loopv, gate, statev, exitCode,
                   logOpen, keepalive, cachedSSHPublicKey, fs>>

\* waitForVPN, lines 177-184: one net.DialTimeout of the inner loop
Dial ==
    /\ pc = "dial"
    /\ \E ok \in BOOLEAN :
          /\ round' = Append(round, ok)
          /\ IF ~ok
             THEN allUp' = FALSE /\ pc' = "roundEnd" /\ UNCHANGED hostIdx
             ELSE /\ UNCHANGED allUp
                  /\ IF hostIdx = Len(hosts)
                     THEN pc' = "roundEnd" /\ UNCHANGED hostIdx
                     ELSE hostIdx' = hostIdx + 1 /\ UNCHANGED pc
    /\ UNCHANGED <<rvars, ivars, hvars, histv, flagv, planv, loopv, gate, statev, exitCode,
                   logOpen, keepalive, cachedSSHPublicKey, fs>>

\* mutant: the loop never looks at allUp
RoundEndNeverReturns ==
    /\ pc = "roundEnd"
    /\ pc' = "dial"
    /\ hostIdx' = 1
    /\ allUp' = TRUE
    /\ round' = << >>
    /\ UNCHANGED <<rvars, ivars, hvars, histv, flagv, planv, loopv, gate, statev,
                   exitCode, logOpen, keepalive, cachedSSHPublicKey, fs>>

\* waitForVPN, lines 185-190: return when allUp, else sleep and poll again
RoundEnd ==
    /\ pc = "roundEnd"
    /\ IF allUp
       THEN /\ gate' = "returned"
            /\ pc' = "postVPN"
            /\ UNCHANGED <<hostIdx, allUp, round>>
       ELSE /\ pc' = "dial"
            /\ hostIdx' = 1
            /\ allUp' = TRUE
            /\ round' = << >>
            /\ UNCHANGED gate
    /\ UNCHANGED <<rvars, ivars, hvars, histv, flagv, planv, loopv, statev, exitCode, logOpen,
                   keepalive, cachedSSHPublicKey, fs>>

\* main, lines 134-146: postVPNSSHKeyStep, the second net check, enter phase 3
PostVPN ==
    /\ pc = "postVPN"
    /\ out' = IF cachedSSHPublicKey # "" /\ ~dryRun
              THEN [out EXCEPT !.shown = Append(@, "uiShowSSHKey")]
              ELSE out
    /\ \/ /\ pc' = "runPhase"
          /\ phase' = "phase3"
          /\ idx' = 1
       \/ \* uiShowSSHKey returned an error
          /\ cachedSSHPublicKey # ""
          /\ ~dryRun
          /\ pc' = "logFatal"
          /\ UNCHANGED <<phase, idx>>
    /\ UNCHANGED <<rvars, ivars, hvars, preflight, ticks, flagv, planv, invoked,
                   succeeded, failed, gatev, statev, exitCode, logOpen,
                   keepalive, cachedSSHPublicKey, fs>>

\* main, lines 150-156: the last log records
Done ==
    /\ pc = "done"
    /\ pc' = "return"
    /\ UNCHANGED <<rvars, ivars, hvars, histv, flagv, planv, loopv, gatev, statev, exitCode,
                   logOpen, keepalive, cachedSSHPublicKey, fs>>

\* return from main: the deferred cancel() and logClose() run, exit status 0
Return ==
    /\ pc = "return"
    /\ keepalive' = IF keepalive = "running" THEN "stopped" ELSE keepalive
    /\ logOpen' = FALSE
    /\ exitCode' = 0
    /\ pc' = "exit"
    /\ UNCHANGED <<rvars, ivars, hvars, histv, flagv, planv, loopv, gatev, statev,
                   cachedSSHPublicKey, fs>>

\* logFatal: write the record, logClose, os.Exit(1); the goroutine dies
\* with the process
LogFatal ==
    /\ pc = "logFatal"
    /\ logOpen' = FALSE
    /\ keepalive' = IF keepalive = "running" THEN "stopped" ELSE keepalive
    /\ exitCode' = 1
    /\ pc' = "exit"
    /\ UNCHANGED <<rvars, ivars, hvars, histv, flagv, planv, loopv, gatev, statev,
                   cachedSSHPublicKey, fs>>

\* mutant: a failed refresh ends the run
KeepaliveTickFatal ==
    /\ keepalive = "running"
    /\ pc \notin {"exit", "logFatal"}
    /\ Len(ticks) < MaxTicks
    /\ \E ok \in BOOLEAN :
          /\ ticks' = Append(ticks, ok)
          /\ pc' = IF ok THEN pc ELSE "logFatal"
    /\ UNCHANGED <<rvars, ivars, hvars, out, preflight, flagv, planv, loopv, gatev, statev,
                   exitCode, logOpen, keepalive, cachedSSHPublicKey, fs>>

\* startSudoKeepalive, lines 197-210: one tick of the goroutine, `sudo -n -v`;
\* a failure is logged as a warning.  The goroutine runs only while the
\* process is alive and its context is not cancelled.
KeepaliveTick ==
    /\ keepalive = "running"
    /\ pc # "exit"
    /\ Len(ticks) < MaxTicks
    /\ \E ok \in BOOLEAN : ticks' = Append(ticks, ok)
    /\ UNCHANGED <<rvars, ivars, hvars, out, preflight, flagv, planv, loopv, gatev, statev,
                   pc, exitCode, logOpen, keepalive, cachedSSHPublicKey, fs>>

\* the operator starts the program again on the same machine
Rerun ==
    /\ pc = "exit"
    /\ runs < MaxRuns
    /\ runs' = runs + 1
    /\ dryRun' \in BOOLEAN
    /\ listFlag' \in BOOLEAN
    /\ onlyFlag' \in OnlyInputs \cup {<< >>}
    /\ allDry' = (allDry /\ dryRun')
    /\ pc' = "main"
    /\ exitCode' = -1
    /\ logOpen' = FALSE
    /\ keepalive' = "none"
    /\ cachedSSHPublicKey' = ""
    /\ tools' = << >>
    /\ p1' = << >>
    /\ p3' = << >>
    /\ bastionConfigsSelected' = FALSE
    /\ phase' = "none"
    /\ idx' = 1
    /\ invoked' = << >>
    /\ succeeded' = {}
    /\ failed' = "none"
    /\ gate' = "before"
    /\ hostIdx' = 1
    /\ allUp' = TRUE
    /\ round' = << >>
    /\ stateData' = {}
    /\ stateLoaded' = FALSE
    /\ forceReinstall' = FALSE
    /\ out' = [listed |-> {}, unknown |-> << >>, shown |-> << >>]
    /\ preflight' = << >>
    /\ ticks' = << >>
    /\ UNCHANGED <<rvars, ivars, hvars, fs, fs0>>

Next ==
    \/ Main \/ LogInit \/ StartSudoKeepalive
    \/ PreflightNetCheck \/ PreflightSSHKeyEnsure \/ PreflightIdentity
    \/ WriteZshrc \/ ResolveOnly \/ ResolveSelection \/ Split
    \/ RunTool \/ RunPhaseDone \/ SetPyenvGlobal \/ EnsureSSHPass
    \/ CheckPhase3 \/ WaitForVPN \/ Dial \/ RoundEnd \/ PostVPN
    \/ Done \/ Return \/ LogFatal \/ KeepaliveTick \/ Rerun

Spec == Init /\ [][Next]_vars

\* the main goroutine is scheduled: a step of the gate or of the hand-over
\* after it that stays possible is eventually taken
SpecLive ==
    /\ Spec
    /\ WF_vars(WaitForVPN)
    /\ WF_vars(Dial)
    /\ WF_vars(RoundEnd)
    /\ WF_vars(PostVPN)

\* ------------------------------------------------------------------------
\* The installers (installer.go), outside simulate-only mode.  An installer
\* is a function of the machine and of the outcome of each of its sub-steps.
\* ------------------------------------------------------------------------

\* how many times in a row one installer is called
MaxCalls == 2

\* sub-steps that may end with exit status 0 without leaving the artifact
\* they are run for (outcome "hollow"); every sub-step may be "ok" or "fail"
HollowSteps ==
    {<<"xcode-select", "--install">>,
     <<"brew", "install", "hudochenkov/sshpass/sshpass">>,
     <<"brew", "install", "sshpass">>}

\* the outcomes the sub-steps of one call may have
Oracles(steps) ==
    {[c \in steps |-> IF c \in f THEN "fail"
                      ELSE IF c \in h THEN "hollow" ELSE "ok"] :
        f \in SUBSET steps, h \in SUBSET (steps \cap HollowSteps)}

\* entry of an installer, `return nil`, `return err`
Start(m) ==
    [m |-> m, done |-> FALSE, err |-> FALSE, ran |-> << >>,
     failed |-> {}, hollow |-> {}]
ReturnNil(s) == IF s.done THEN s ELSE [s EXCEPT !.done = TRUE]
ReturnErr(s) == IF s.done THEN s ELSE [s EXCEPT !.done = TRUE, !.err = TRUE]

\* runCmd / sudoCmd / runInteractive / an os call: the sub-step c is
\* executed; on "ok" the paths it creates exist afterwards
Exec(s, c, o, creates) ==
    IF s.done THEN s
    ELSE [s EXCEPT !.ran = Append(@, c),
                   !.failed = IF o[c] = "fail" THEN @ \cup {c} ELSE @,
                   !.hollow = IF o[c] = "hollow" THEN @ \cup {c} ELSE @,
                   !.m.paths = IF o[c] = "ok" THEN @ \cup creates ELSE @]

\* `if _, err := runCmd(...); err != nil { return err }`
Required(s, c, o, creates) ==
    IF ~s.done /\ o[c] = "fail"
    THEN ReturnErr(Exec(s, c, o, creates))
    ELSE Exec(s, c, o, creates)

\* `_, _ = runCmd(...)`, `_ = os.Remove(...)`, or an error that is only
\* logged as a warning
Ignored(s, c, o, creates) == Exec(s, c, o, creates)

guardGNOC == "# BEGIN: GNOC Temp Help"

\* a call of appendToZshrc inside an installer; its error is returned
AppendZshrc(s, guardString, o) ==
    IF s.done \/ fileContains(s.m.zshrc, guardString) THEN s
    ELSE LET c == <<"appendToZshrc", guardString>>
             r == appendToZshrc(guardString, s.m.zshrc, FALSE, o[c] # "fail")
         IN  [s EXCEPT !.m.zshrc = r.zshrc,
                       !.ran = Append(@, c),
                       !.failed = IF r.err THEN @ \cup {c} ELSE @,
                       !.err = r.err,
                       !.done = r.err]

\* gitCloneOrPull: pull when the working copy exists, clone otherwise
gitCloneOrPull(s, dir, o) ==
    IF s.done THEN s
    ELSE IF (dir \o "/.git") \in s.m.paths
         THEN Required(s, <<"git", "-C", dir, "pull">>, o, {})
         ELSE Required(s, <<"git", "clone", dir>>, o, {dir \o "/.git"})

installITerm2(m, o) ==
    IF "/Applications/iTerm.app" \in m.paths THEN ReturnNil(Start(m))
    ELSE LET s1 == Required(Start(m), <<"curl", "-o", "/tmp/iterm2.zip">>, o, {})
             s2 == Required(s1, <<"unzip", "/tmp/iterm2.zip">>, o,
                            {"/Applications/iTerm.app"})
             s3 == Ignored(s2, <<"os.Remove", "/tmp/iterm2.zip">>, o, {})
             s4 == Ignored(s3, <<"os.MkdirAll", "~/Library/Preferences">>, o, {})
             s5 == Required(s4, <<"os.WriteFile", "com.googlecode.iterm2.plist">>,
                            o, {})
             s6 == Ignored(s5, <<"defaults", "read", "com.googlecode.iterm2">>,
                           o, {})
         IN  ReturnNil(s6)

\* the error of `xcode-select --install` is dropped; the operator's
\* confirmation alone decides the result
installXcode(m, o) ==
    IF "/Library/Developer/CommandLineTools" \in m.paths
    THEN ReturnNil(Start(m))
    ELSE LET s1 == Ignored(Start(m), <<"xcode-select", "--install">>, o,
                           {"/Library/Developer/CommandLineTools"})
             s2 == Required(s1, <<"uiConfirm", "Xcode CLI Tools">>, o, {})
         IN  ReturnNil(s2)

ensureSSHPass(m, o) ==
    IF "/opt/homebrew/bin/sshpass" \in m.paths
       \/ "/usr/local/bin/sshpass" \in m.paths
    THEN ReturnNil(Start(m))
    ELSE IF "/opt/homebrew/bin/brew" \notin m.paths THEN ReturnErr(Start(m))
    ELSE LET tap == <<"brew", "install", "hudochenkov/sshpass/sshpass">>
             s1 == Ignored(Start(m), tap, o, {"/opt/homebrew/bin/sshpass"})
             s2 == IF o[tap] = "fail"
                   THEN Required(s1, <<"brew", "install", "sshpass">>, o,
                                 {"/opt/homebrew/bin/sshpass"})
                   ELSE s1
         IN  IF "/opt/homebrew/bin/sshpass" \notin s2.m.paths
                /\ "/usr/local/bin/sshpass" \notin s2.m.paths
             THEN ReturnErr(s2)
             ELSE ReturnNil(s2)

ensureOpenSCSymlinks(s, o) ==
    IF s.done THEN s
    ELSE IF "/Library/OpenSC/lib/opensc-pkcs11.so" \notin s.m.paths
         THEN ReturnNil(s)
    ELSE IF "/usr/local/lib/opensc-pkcs11.so" \in s.m.paths
         THEN ReturnNil(s)
    ELSE LET s1 == Required(s, <<"sudo", "mkdir", "-pv", "/usr/local/lib">>,
                            o, {})
             s2 == Required(s1, <<"sudo", "ln", "-v", "opensc-pkcs11.so">>, o,
                            {"/usr/local/lib/opensc-pkcs11.so"})
         IN  ReturnNil(s2)

brewPackages == <<"openssl", "yubico-piv-tool", "jq", "pyenv", "pyenv-virtualenv">>

RECURSIVE brewInstallEach(_, _, _)

brewInstallEach(s, pkgs, o) ==
    IF pkgs = << >> THEN s
    ELSE brewInstallEach(Required(s, <<"brew", "install", Head(pkgs)>>, o, {}),
                         Tail(pkgs), o)

\* the packages are required; a failure of the opensc cask is a warning
ensureBrewPackages(s, o) ==
    LET s1 == brewInstallEach(s, brewPackages, o)
        s2 == Ignored(s1, <<"brew", "install", "--cask", "opensc">>, o,
                      {"/Library/OpenSC/lib/opensc-pkcs11.so"})
    IN  ensureOpenSCSymlinks(s2, o)

installHomebrew(m, o) ==
    IF "/opt/homebrew/bin/brew" \in m.paths
    THEN ensureBrewPackages(Start(m), o)
    ELSE ensureBrewPackages(
             Required(Start(m), <<"bash", "-c", "install.sh">>, o,
                      {"/opt/homebrew/bin/brew"}), o)

installPyenv(m, o) == ReturnNil(AppendZshrc(Start(m), guardPyenv, o))

installPythonVersion(version, m, o) ==
    IF ("~/.pyenv/versions/" \o version) \in m.paths THEN ReturnNil(Start(m))
    ELSE ReturnNil(Required(Start(m), <<"pyenv", "install", version>>, o,
                            {"~/.pyenv/versions/" \o version}))

installPyenvVenv(venvName, pythonVersion, m, o) ==
    IF ("~/.pyenv/versions/" \o venvName) \in m.paths THEN ReturnNil(Start(m))
    ELSE ReturnNil(Required(Start(m),
                            <<"pyenv", "virtualenv", pythonVersion, venvName>>,
                            o, {"~/.pyenv/versions/" \o venvName}))

installAllProxy(m, o) ==
    LET s1 == gitCloneOrPull(Start(m), "~/misc-tools", o)
        s2 == Required(s1, <<"pip", "install", "-e", "allproxy">>, o, {})
    IN  ReturnNil(s2)

\* the clone is removed at the end, so every call clones again
installSpartaPKI(m, o) ==
    LET s1 == Required(Start(m), <<"os.MkdirAll", "~/sparta_roots">>, o,
                       {"~/sparta_roots"})
        s2 == gitCloneOrPull(s1, "~/sparta-pki", o)
        s3 == Required(s2, <<"os.ReadDir", "trustroots">>, o, {})
        s4 == Required(s3, <<"os.ReadFile", "trustroots/*">>, o, {})
        s5 == Required(s4, <<"os.WriteFile", "sparta_roots/*">>, o, {})
        rm == <<"os.RemoveAll", "~/sparta-pki">>
        s6 == Required(s5, rm, o, {})
    IN  ReturnNil(IF ~s5.done /\ o[rm] = "ok"
                  THEN [s6 EXCEPT !.m.paths = @ \ {"~/sparta-pki/.git"}]
                  ELSE s6)

\* no guard: every call runs pip again
installHopsCLI(m, o) ==
    LET s1 == Ignored(Start(m), <<"pip", "cache", "purge">>, o, {})
        s2 == Required(s1, <<"pip", "install", "--upgrade", "pip">>, o, {})
        s3 == Required(s2, <<"pip", "install", "hops-cli">>, o, {})
        s4 == Required(s3, <<"pip", "install", "setuptools==81.0.0">>, o, {})
    IN  ReturnNil(s4)

RECURSIVE linkEach(_, _, _)

\* `if !pathExists(dst) { sudo ln -s src dst }` for each destination
linkEach(s, dsts, o) ==
    IF dsts = << >> THEN s
    ELSE linkEach(IF s.done \/ Head(dsts) \in s.m.paths THEN s
                  ELSE Required(s, <<"sudo", "ln", "-s", Head(dsts)>>, o,
                                {Head(dsts)}),
                  Tail(dsts), o)

installGNOCHelper(m, o) ==
    LET s1 == gitCloneOrPull(Start(m), "~/gnoc-helper", o)
        s2 == AppendZshrc(s1, guardGNOC, o)
        s3 == linkEach(s2, <<"/usr/local/bin/gnoc-helper",
                             "/usr/local/bin/rack-finder",
                             "/usr/local/bin/console-finder">>, o)
        s4 == Required(s3, <<"gnoc-helper", "--setup">>, o, {})
        s5 == Required(s4, <<"pip", "install", "rust", "cffi", "cryptography">>,
                       o, {})
    IN  ReturnNil(s5)

installStencil(m, o) ==
    LET s1 == gitCloneOrPull(Start(m), "~/stencil", o)
        s2 == gitCloneOrPull(s1, "~/stencil-temp-gnoc", o)
        s3 == Required(s2, <<"pip", "install", "~/stencil/.">>, o, {})
        s4 == linkEach(s3, <<"/usr/local/bin/stencil">>, o)
        s5 == Required(s4, <<"stencil", "init">>, o, {})
    IN  ReturnNil(s5)

installSilencer(m, o) ==
    LET s1 == gitCloneOrPull(Start(m), "~/silencer", o)
        s2 == Required(s1, <<"make", "-C", "~/silencer", "install">>, o, {})
        s3 == Required(s2, <<"make", "-C", "~/silencer", "link">>, o, {})
    IN  ReturnNil(s3)

installNCPCLI(m, o) ==
    LET s1 == Ignored(Start(m), <<"pip", "cache", "purge">>, o, {})
        s2 == Required(s1, <<"pip", "install", "--upgrade", "pip">>, o, {})
        s3 == Ignored(s2, <<"brew", "--prefix", "openssl@1.1">>, o, {})
        s4 == Required(s3, <<"pip", "install", "ncpcli">>, o, {})
        s5 == Required(s4, <<"ncpcli", "--rebuild-config">>, o, {})
    IN  ReturnNil(s5)

installJITPass(m, o) ==
    LET s1 == gitCloneOrPull(Start(m), "~/gnoc-jit-pass", o)
        s2 == Required(s1, <<"~/gnoc-jit-pass/wrapper.sh">>, o, {})
    IN  ReturnNil(s2)

\* runTool outside simulate-only mode: the switch over the tool
runTool(t, m, o) ==
    CASE t = "iterm2"            -> installITerm2(m, o)
      [] t = "xcode"             -> installXcode(m, o)
      [] t = "homebrew"          -> installHomebrew(m, o)
      [] t = "pyenv"             -> installPyenv(m, o)
      [] t = "python313"         -> installPythonVersion("3.13.2", m, o)
      [] t = "python396"         -> installPythonVersion("3.9.6", m, o)
      [] t = "pyenv_venv_ncpcli" -> installPyenvVenv("ncpcli", "3.9.6", m, o)
      [] t = "allproxy"          -> installAllProxy(m, o)
      [] t = "sparta_pki"        -> installSpartaPKI(m, o)
      [] t = "hops_cli"          -> installHopsCLI(m, o)
      [] t = "gnoc_helper"       -> installGNOCHelper(m, o)
      [] t = "stencil"           -> installStencil(m, o)
      [] t = "silencer"          -> installSilencer(m, o)
      [] t = "ncpcli"            -> installNCPCLI(m, o)
      [] t = "jit_pass"          -> installJITPass(m, o)
      [] OTHER                   -> ReturnErr(Start(m))

clonePull(dir) == {<<"git", "-C", dir, "pull">>, <<"git", "clone", dir>>}

\* the sub-steps each installer can execute
StepsOf(t) ==
    CASE t = "iterm2" ->
            {<<"curl", "-o", "/tmp/iterm2.zip">>, <<"unzip", "/tmp/iterm2.zip">>,
             <<"os.Remove", "/tmp/iterm2.zip">>,
             <<"os.MkdirAll", "~/Library/Preferences">>,
             <<"os.WriteFile", "com.googlecode.iterm2.plist">>,
             <<"defaults", "read", "com.googlecode.iterm2">>}
      [] t = "xcode" ->
            {<<"xcode-select", "--install">>, <<"uiConfirm", "Xcode CLI Tools">>}
      [] t = "sshpass" ->
            {<<"brew", "install", "hudochenkov/sshpass/sshpass">>,
             <<"brew", "install", "sshpass">>}
      [] t = "homebrew" ->
            {<<"bash", "-c", "install.sh">>,
             <<"brew", "install", "--cask", "opensc">>,
             <<"sudo", "mkdir", "-pv", "/usr/local/lib">>,
             <<"sudo", "ln", "-v", "opensc-pkcs11.so">>}
            \cup {<<"brew", "install", brewPackages[i]>> : i \in DOMAIN brewPackages}
      [] t = "pyenv" -> {<<"appendToZshrc", guardPyenv>>}
      [] t = "python313" -> {<<"pyenv", "install", "3.13.2">>}
      [] t = "python396" -> {<<"pyenv", "install", "3.9.6">>}
      [] t = "pyenv_venv_ncpcli" -> {<<"pyenv", "virtualenv", "3.9.6", "ncpcli">>}
      [] t = "allproxy" ->
            clonePull("~/misc-tools") \cup {<<"pip", "install", "-e", "allproxy">>}
      [] t = "sparta_pki" ->
            clonePull("~/sparta-pki")
            \cup {<<"os.MkdirAll", "~/sparta_roots">>, <<"os.ReadDir", "trustroots">>,
                  <<"os.ReadFile", "trustroots/*">>,
                  <<"os.WriteFile", "sparta_roots/*">>,
                  <<"os.RemoveAll", "~/sparta-pki">>}
      [] t = "hops_cli" ->
            {<<"pip", "cache", "purge">>, <<"pip", "install", "--upgrade", "pip">>,
             <<"pip", "install", "hops-cli">>,
             <<"pip", "install", "setuptools==81.0.0">>}
      [] t = "gnoc_helper" ->
            clonePull("~/gnoc-helper")
            \cup {<<"appendToZshrc", guardGNOC>>,
                  <<"sudo", "ln", "-s", "/usr/local/bin/gnoc-helper">>,
                  <<"sudo", "ln", "-s", "/usr/local/bin/rack-finder">>,
                  <<"sudo", "ln", "-s", "/usr/local/bin/console-finder">>,
                  <<"gnoc-helper", "--setup">>,
                  <<"pip", "install", "rust", "cffi", "cryptography">>}
      [] t = "stencil" ->
            clonePull("~/stencil") \cup clonePull("~/stencil-temp-gnoc")
            \cup {<<"pip", "install", "~/stencil/.">>,
                  <<"sudo", "ln", "-s", "/usr/local/bin/stencil">>,
                  <<"stencil", "init">>}
      [] t = "silencer" ->
            clonePull("~/silencer")
            \cup {<<"make", "-C", "~/silencer", "install">>,
                  <<"make", "-C", "~/silencer", "link">>}
      [] t = "ncpcli" ->
            {<<"pip", "cache", "purge">>, <<"pip", "install", "--upgrade", "pip">>,
             <<"brew", "--prefix", "openssl@1.1">>, <<"pip", "install", "ncpcli">>,
             <<"ncpcli", "--rebuild-config">>}
      [] t = "jit_pass" ->
            clonePull("~/gnoc-jit-pass") \cup {<<"~/gnoc-jit-pass/wrapper.sh">>}

\* one installer is chosen, on a machine that is new or already has Homebrew
InitInstall ==
    /\ ResolverIdle
    /\ ProcessStart
    /\ runs = 0
    /\ dryRun = FALSE
    /\ listFlag = FALSE
    /\ onlyFlag = << >>
    /\ fs = FreshFS(FALSE)
    /\ fs0 = fs
    /\ allDry = FALSE
    /\ ipc = "ready"
    /\ itarget \in toolIDs \cup {"sshpass"}
    /\ machine \in {[paths |-> p, zshrc |-> << >>] :
                       p \in {{}, {"/opt/homebrew/bin/brew"}}}
    /\ calls = 0
    /\ last = NoCall
    /\ full = FALSE
    /\ wasFull = FALSE
    /\ HarnessIdle

\* what a call leaves in the history variables
Returned(s) ==
    /\ machine' = s.m
    /\ last' = [err |-> s.err, ran |-> s.ran, failed |-> s.failed,
                hollow |-> s.hollow]
    /\ wasFull' = full
    /\ full' = (full \/ (~s.err /\ s.failed = {} /\ s.hollow = {}))
    /\ calls' = calls + 1

\* runPhase calls runTool(itarget)
CallRunTool ==
    /\ ipc = "ready"
    /\ itarget \in toolIDs
    /\ calls < MaxCalls
    /\ \E o \in Oracles(StepsOf(itarget)) : Returned(runTool(itarget, machine, o))
    /\ UNCHANGED <<rvars, pvars, hvars, ipc, itarget>>

\* main calls ensureSSHPass
CallEnsureSSHPass ==
    /\ ipc = "ready"
    /\ itarget = "sshpass"
    /\ calls < MaxCalls
    /\ \E o \in Oracles(StepsOf(itarget)) : Returned(ensureSSHPass(machine, o))
    /\ UNCHANGED <<rvars, pvars, hvars, ipc, itarget>>

NextInstall == CallRunTool \/ CallEnsureSSHPass

SpecInstall == InitInstall /\ [][NextInstall]_vars

\* ------------------------------------------------------------------------
\* The log sink (logger.go) used by the main flow and by the keepalive
\* goroutine (part_001, startSudoKeepalive), one action per step of each.
\* ------------------------------------------------------------------------

\* how many log operations the main flow starts after the keepalive started
MaxLogOps == 2

Flows == {"main", "ticker"}

\* the main flow at rest, for the harnesses that do not run it
PipelineIdle ==
    /\ ProcessStart
    /\ runs = 0
    /\ dryRun = FALSE
    /\ listFlag = FALSE
    /\ onlyFlag = << >>
    /\ fs = FreshFS(FALSE)
    /\ fs0 = fs
    /\ allDry = FALSE

\* the process has started and is about to call logInit
LogStart ==
    /\ lpc = [f \in Flows |-> IF f = "main" THEN "logInit" ELSE "unborn"]
    /\ lret = [f \in Flows |-> "idle"]
    /\ lmu = "none"
    /\ lfile = "nil"
    /\ lencoder = FALSE
    /\ lphase = ""
    /\ lentry = [f \in Flows |-> ""]
    /\ records = << >>
    /\ lops = 0
    /\ lticks = 0
    /\ cancelled = FALSE
    /\ lateEncode = FALSE

\* the process is alive: os.Exit or the return of main ends every goroutine
alive == lpc["main"] # "exited"

\* mutant: Lock does not wait for the holder
canLockAlways(mu) == TRUE

\* sync.Mutex.Lock returns only when nobody holds the mutex
canLock(mu) == mu = "none"

\* the phases main sets, in the order it sets them
nextPhase(ph) ==
    CASE ph = ""          -> "preflight"
      [] ph = "preflight" -> "phase1"
      [] ph = "phase1"    -> "phase2"
      [] OTHER            -> "phase3"

\* logInit: open run.log, make the encoder, log session_start
LLogInit ==
    /\ lpc["main"] = "logInit"
    /\ \E ok \in BOOLEAN :
          IF ok
          THEN /\ lfile' = "open"
               /\ lencoder' = TRUE
               /\ lpc' = [lpc EXCEPT !["main"] = "w_lock"]
               /\ lret' = [lret EXCEPT !["main"] = "startKeepalive"]
          ELSE /\ lpc' = [lpc EXCEPT !["main"] = "exited"]
               /\ UNCHANGED <<lfile, lencoder, lret>>
    /\ UNCHANGED <<rvars, pvars, ivars, ovars, lmu, lphase, lentry, records, lops,
                   lticks, cancelled, lateEncode>>

\* logWrite: log.mu.Lock()
LWLock(f) ==
    /\ alive
    /\ lpc[f] = "w_lock"
    /\ canLock(lmu)
    /\ lmu' = f
    /\ lpc' = [lpc EXCEPT ![f] = "w_check"]
    /\ UNCHANGED <<rvars, pvars, ivars, ovars, lret, lfile, lencoder, lphase, lentry,
                   records, lops, lticks, cancelled, lateEncode>>

\* logWrite: return when the encoder is nil, else build the logEntry,
\* which reads log.phase
LWCheck(f) ==
    /\ alive
    /\ lpc[f] = "w_check"
    /\ IF lencoder
       THEN /\ lentry' = [lentry EXCEPT ![f] = lphase]
            /\ lpc' = [lpc EXCEPT ![f] = "w_encode"]
       ELSE /\ lpc' = [lpc EXCEPT ![f] = "w_unlock"]
            /\ UNCHANGED lentry
    /\ UNCHANGED <<rvars, pvars, ivars, ovars, lret, lmu, lfile, lencoder, lphase,
                   records, lops, lticks, cancelled, lateEncode>>

\* logWrite: `_ = log.encoder.Encode(...)`; on a closed file the write
\* fails and the error is dropped
LWEncode(f) ==
    /\ alive
    /\ lpc[f] = "w_encode"
    /\ IF lfile = "open"
       THEN /\ records' = Append(records, [by |-> f, phase |-> lentry[f]])
            /\ UNCHANGED lateEncode
       ELSE /\ lateEncode' = TRUE
            /\ UNCHANGED records
    /\ lpc' = [lpc EXCEPT ![f] = "w_unlock"]
    /\ UNCHANGED <<rvars, pvars, ivars, ovars, lret, lmu, lfile, lencoder, lphase,
                   lentry, lops, lticks, cancelled>>

\* logWrite: the deferred log.mu.Unlock(), then back in the caller
LWUnlock(f) ==
    /\ alive
    /\ lpc[f] = "w_unlock"
    /\ lmu' = "none"
    /\ lpc' = [lpc EXCEPT ![f] = lret[f]]
    /\ UNCHANGED <<rvars, pvars, ivars, ovars, lret, lfile, lencoder, lphase, lentry,
                   records, lops, lticks, cancelled, lateEncode>>

\* main, lines 40-47: startSudoKeepalive starts the goroutine, or fails and
\* main calls logFatal
LStartKeepalive ==
    /\ lpc["main"] = "startKeepalive"
    /\ \E ok \in BOOLEAN :
          IF ok
          THEN /\ lpc' = [lpc EXCEPT !["main"] = "run", !["ticker"] = "wait"]
               /\ UNCHANGED lret
          ELSE /\ lpc' = [lpc EXCEPT !["main"] = "w_lock"]
               /\ lret' = [lret EXCEPT !["main"] = "f_close"]
    /\ UNCHANGED <<rvars, pvars, ivars, ovars, lmu, lfile, lencoder, lphase, lentry,
                   records, lops, lticks, cancelled, lateEncode>>

\* the main flow calls logInfo, logWarn or logError
LMainLog ==
    /\ lpc["main"] = "run"
    /\ lops < MaxLogOps
    /\ lops' = lops + 1
    /\ lpc' = [lpc EXCEPT !["main"] = "w_lock"]
    /\ lret' = [lret EXCEPT !["main"] = "run"]
    /\ UNCHANGED <<rvars, pvars, ivars, ovars, lmu, lfile, lencoder, lphase, lentry,
                   records, lticks, cancelled, lateEncode>>

\* the main flow calls logSetPhase
LMainSetPhase ==
    /\ lpc["main"] = "run"
    /\ lops < MaxLogOps
    /\ lops' = lops + 1
    /\ lpc' = [lpc EXCEPT !["main"] = "p_lock"]
    /\ UNCHANGED <<rvars, pvars, ivars, ovars, lret, lmu, lfile, lencoder, lphase,
                   lentry, records, lticks, cancelled, lateEncode>>

\* logSetPhase: log.mu.Lock()
LPLock ==
    /\ lpc["main"] = "p_lock"
    /\ canLock(lmu)
    /\ lmu' = "main"
    /\ lpc' = [lpc EXCEPT !["main"] = "p_set"]
    /\ UNCHANGED <<rvars, pvars, ivars, ovars, lret, lfile, lencoder, lphase, lentry,
                   records, lops, lticks, cancelled, lateEncode>>

\* logSetPhase: log.phase = phase
LPSet ==
    /\ lpc["main"] = "p_set"
    /\ lphase' = nextPhase(lphase)
    /\ lpc' = [lpc EXCEPT !["main"] = "p_unlock"]
    /\ UNCHANGED <<rvars, pvars, ivars, ovars, lret, lmu, lfile, lencoder, lentry,
                   records, lops, lticks, cancelled, lateEncode>>

\* logSetPhase: log.mu.Unlock()
LPUnlock ==
    /\ lpc["main"] = "p_unlock"
    /\ lmu' = "none"
    /\ lpc' = [lpc EXCEPT !["main"] = "run"]
    /\ UNCHANGED <<rvars, pvars, ivars, ovars, lret, lfile, lencoder, lphase, lentry,
                   records, lops, lticks, cancelled, lateEncode>>

\* main returns: the deferred cancel() runs first
LMainReturn ==
    /\ lpc["main"] = "run"
    /\ cancelled' = TRUE
    /\ lpc' = [lpc EXCEPT !["main"] = "ret_close"]
    /\ UNCHANGED <<rvars, pvars, ivars, ovars, lret, lmu, lfile, lencoder, lphase,
                   lentry, records, lops, lticks, lateEncode>>

\* main calls logFatal: logWrite first
LMainFatal ==
    /\ lpc["main"] = "run"
    /\ lpc' = [lpc EXCEPT !["main"] = "w_lock"]
    /\ lret' = [lret EXCEPT !["main"] = "f_close"]
    /\ UNCHANGED <<rvars, pvars, ivars, ovars, lmu, lfile, lencoder, lphase, lentry,
                   records, lops, lticks, cancelled, lateEncode>>

\* logClose, deferred by main or called by logFatal: closes the file and
\* leaves the encoder in place
LClose ==
    /\ lpc["main"] \in {"ret_close", "f_close"}
    /\ lfile' = IF lfile # "nil" THEN "closed" ELSE lfile
    /\ lpc' = [lpc EXCEPT !["main"] = "exit"]
    /\ UNCHANGED <<rvars, pvars, ivars, ovars, lret, lmu, lencoder, lphase, lentry,
                   records, lops, lticks, cancelled, lateEncode>>

\* the process ends: main has returned, or os.Exit(1) in logFatal
LExit ==
    /\ lpc["main"] = "exit"
    /\ lpc' = [lpc EXCEPT !["main"] = "exited"]
    /\ UNCHANGED <<rvars, pvars, ivars, ovars, lret, lmu, lfile, lencoder, lphase,
                   lentry, records, lops, lticks, cancelled, lateEncode>>

\* the goroutine: the ticker fired, `sudo -n -v` ran; a failure calls logWarn
LTick ==
    /\ alive
    /\ lpc["ticker"] = "wait"
    /\ lticks < MaxTicks
    /\ lticks' = lticks + 1
    /\ \E ok \in BOOLEAN :
          IF ok
          THEN UNCHANGED <<lpc, lret>>
          ELSE /\ lpc' = [lpc EXCEPT !["ticker"] = "w_lock"]
               /\ lret' = [lret EXCEPT !["ticker"] = "wait"]
    /\ UNCHANGED <<rvars, pvars, ivars, ovars, lmu, lfile, lencoder, lphase, lentry,
                   records, lops, cancelled, lateEncode>>

\* the goroutine: ctx.Done() is selected and the goroutine returns
LTickerStop ==
    /\ alive
    /\ lpc["ticker"] = "wait"
    /\ cancelled
    /\ lpc' = [lpc EXCEPT !["ticker"] = "stopped"]
    /\ UNCHANGED <<rvars, pvars, ivars, ovars, lret, lmu, lfile, lencoder, lphase,
                   lentry, records, lops, lticks, cancelled, lateEncode>>

InitLog ==
    /\ ResolverIdle
    /\ PipelineIdle
    /\ InstallIdle
    /\ OthersIdle
    /\ LogStart

NextLog ==
    \/ LLogInit \/ LStartKeepalive \/ LMainLog \/ LMainSetPhase
    \/ LPLock \/ LPSet \/ LPUnlock
    \/ LMainReturn \/ LMainFatal \/ LClose \/ LExit
    \/ LTick \/ LTickerStop
    \/ \E f \in Flows : LWLock(f) \/ LWCheck(f) \/ LWEncode(f) \/ LWUnlock(f)

SpecLog == InitLog /\ [][NextLog]_vars

\* ------------------------------------------------------------------------
\* The Run State store (main.go:264-353): loadRunState, saveRunState,
\* resetRunState, isToolCompleted, markToolCompleted, called in any order
\* by one flow.
\* ------------------------------------------------------------------------

\* how many operations of the store are called
MaxStoreOps == 3

\* the tools the operations are called for, in the key order of the encoder
StoreTools == <<"homebrew", "xcode">>

\* the keys of a CompletedTools map
Keys(m) == {e.tool : e \in m}

\* `stateData.CompletedTools[string(t)] = now`
Put(m, t, now) == {e \in m : e.tool # t} \cup {[tool |-> t, at |-> now]}

\* json.MarshalIndent of a runState: the members of completed_tools in key
\* order
RECURSIVE MarshalFrom(_, _)
MarshalFrom(m, i) ==
    IF i > Len(StoreTools) THEN << >>
    ELSE LET here == {e \in m : e.tool = StoreTools[i]}
         IN  (IF here = {} THEN << >> ELSE <<CHOOSE e \in here : TRUE>>)
                 \o MarshalFrom(m, i + 1)
Marshal(m) == MarshalFrom(m, 1)

\* json.Unmarshal into a runState: the members are stored one by one, a
\* later member replacing an earlier one with the same key; a document
\* without completed_tools leaves the map nil, which loadRunState replaces
\* by an empty map
RECURSIVE Unmarshal(_)
Unmarshal(doc) ==
    IF doc = << >> THEN {}
    ELSE LET e == doc[Len(doc)]
         IN  Put(Unmarshal(SubSeq(doc, 1, Len(doc) - 1)), e.tool, e.at)

\* the state files a run may find
StateFiles ==
    {AbsentFile, [exists |-> TRUE, valid |-> FALSE, entries |-> << >>]}
        \cup {[exists |-> TRUE, valid |-> TRUE, entries |-> Marshal(m)] :
                  m \in {{}, {[tool |-> "xcode", at |-> 0]},
                         {[tool |-> "homebrew", at |-> 0],
                          [tool |-> "xcode", at |-> 0]}}}

\* what a failed or successful os.WriteFile of data leaves on disk: the
\* file is created or truncated first, so a failure may leave the old
\* file, or a file cut short
Written(file, data, ok) ==
    IF ok THEN {[exists |-> TRUE, valid |-> TRUE, entries |-> data]}
    ELSE {file, [exists |-> TRUE, valid |-> FALSE, entries |-> << >>]}

StoreStart ==
    /\ completedTools = {}
    /\ stateFile \in StateFiles
    /\ clock = 1
    /\ slast = NoOp
    /\ sops = 0

\* an operation returns
StoreReturn(op, t, err, answer) ==
    /\ slast' = [op |-> op, t |-> t, err |-> err, answer |-> answer]
    /\ sops' = sops + 1

\* saveRunState of the map m; pathOK: stateFilePath succeeds, writeOK:
\* os.WriteFile succeeds
saveRunState(op, t, m, pathOK, writeOK) ==
    IF ~pathOK
    THEN StoreReturn(op, t, TRUE, FALSE) /\ UNCHANGED stateFile
    ELSE /\ stateFile' \in Written(stateFile, Marshal(m), writeOK)
         /\ StoreReturn(op, t, ~writeOK, FALSE)

\* loadRunState
LoadRunState ==
    /\ sops < MaxStoreOps
    /\ \E pathOK, readOK \in BOOLEAN :
          IF ~pathOK
          THEN StoreReturn("load", "", TRUE, FALSE) /\ UNCHANGED completedTools
          ELSE IF ~stateFile.exists
          THEN StoreReturn("load", "", FALSE, FALSE) /\ completedTools' = {}
          ELSE IF ~readOK \/ ~stateFile.valid
          THEN StoreReturn("load", "", TRUE, FALSE) /\ UNCHANGED completedTools
          ELSE /\ StoreReturn("load", "", FALSE, FALSE)
               /\ completedTools' = Unmarshal(stateFile.entries)
    /\ UNCHANGED <<notStore, stateFile, clock>>

\* markToolCompleted(t)
MarkToolCompleted ==
    /\ sops < MaxStoreOps
    /\ \E i \in DOMAIN StoreTools, pathOK, writeOK \in BOOLEAN :
          /\ completedTools' = Put(completedTools, StoreTools[i], clock)
          /\ saveRunState("mark", StoreTools[i], completedTools', pathOK, writeOK)
    /\ UNCHANGED <<notStore, clock>>

\* resetRunState
ResetRunState ==
    /\ sops < MaxStoreOps
    /\ completedTools' = {}
    /\ \E pathOK, writeOK \in BOOLEAN :
          saveRunState("reset", "", completedTools', pathOK, writeOK)
    /\ UNCHANGED <<notStore, clock>>

\* isToolCompleted(t)
IsToolCompleted ==
    /\ sops < MaxStoreOps
    /\ \E i \in DOMAIN StoreTools :
          StoreReturn("is", StoreTools[i], FALSE,
                      StoreTools[i] \in Keys(completedTools))
    /\ UNCHANGED <<notStore, completedTools, stateFile, clock>>

\* a second passes
Second ==
    /\ clock < MaxStoreOps
    /\ clock' = clock + 1
    /\ UNCHANGED <<notStore, completedTools, stateFile, slast, sops>>

InitStore ==
    /\ ResolverIdle
    /\ PipelineIdle
    /\ InstallIdle
    /\ LogIdle
    /\ CleanupStart
    /\ CycleIdle
    /\ StoreStart

NextStore ==
    \/ LoadRunState \/ MarkToolCompleted \/ ResetRunState
    \/ IsToolCompleted \/ Second

SpecStore == InitStore /\ [][NextStore]_vars

\* ------------------------------------------------------------------------
\* The cleanup registry (part_001:1-36): registerCleanup and runCleanup,
\* called by two flows and by the cleanup functions themselves, one action
\* per step between two operations on cleanupMu.
\* ------------------------------------------------------------------------

\* how many calls the flows make
MaxCleanupCalls == 3

\* the cleanup functions: "plain" touches nothing of the registry,
\* "registers" calls registerCleanup("plain"), "reruns" calls runCleanup;
\* "nil" is the nil func()
CleanupFuncs == {"plain", "registers", "reruns"}

\* cleanupMu.Lock() returns when no flow holds the mutex
canTake(mu) == mu = "none"

\* mutant: the snapshot is taken in order of registration
inOrder(fns) == fns

\* `for i := len(cleanupFns) - 1; i >= 0; i-- { fns = append(fns, cleanupFns[i]) }`
reversed(fns) == [i \in 1..Len(fns) |-> fns[Len(fns) + 1 - i]]

\* mutant: the flag is not looked at
alreadyRunIgnored(run) == FALSE

\* `if cleanupRun`
alreadyRun(run) == run

\* a flow calls registerCleanup(fn)
KCallRegister(f) ==
    /\ kpc[f] = "idle"
    /\ kcalls < MaxCleanupCalls
    /\ kcalls' = kcalls + 1
    /\ \E fn \in CleanupFuncs \cup {"nil"} : karg' = [karg EXCEPT ![f] = fn]
    /\ kpc' = [kpc EXCEPT ![f] = "r_entry"]
    /\ kret' = [kret EXCEPT ![f] = "idle"]
    /\ UNCHANGED <<notCleanup, cleanupMu, cleanupFns, cleanupRun, kfns,
                   katcall, ksnaps, kran, kdone>>

\* registerCleanup, lines 12-14: `if fn == nil { return }`
KRegEntry(f) ==
    /\ kpc[f] = "r_entry"
    /\ kpc' = [kpc EXCEPT ![f] = IF karg[f] = "nil" THEN kret[f] ELSE "r_lock"]
    /\ UNCHANGED <<notCleanup, cleanupMu, cleanupFns, cleanupRun, kret, karg,
                   kfns, katcall, ksnaps, kran, kdone, kcalls>>

\* registerCleanup, line 15: cleanupMu.Lock()
KRegLock(f) ==
    /\ kpc[f] = "r_lock"
    /\ canTake(cleanupMu)
    /\ cleanupMu' = f
    /\ kpc' = [kpc EXCEPT ![f] = "r_append"]
    /\ UNCHANGED <<notCleanup, cleanupFns, cleanupRun, kret, karg, kfns,
                   katcall, ksnaps, kran, kdone, kcalls>>

\* registerCleanup, line 17: the append
KRegAppend(f) ==
    /\ kpc[f] = "r_append"
    /\ cleanupFns' = Append(cleanupFns, karg[f])
    /\ kpc' = [kpc EXCEPT ![f] = "r_unlock"]
    /\ UNCHANGED <<notCleanup, cleanupMu, cleanupRun, kret, karg, kfns,
                   katcall, ksnaps, kran, kdone, kcalls>>

\* registerCleanup, line 16: the deferred cleanupMu.Unlock(), and return
KRegUnlock(f) ==
    /\ kpc[f] = "r_unlock"
    /\ cleanupMu' = "none"
    /\ kpc' = [kpc EXCEPT ![f] = kret[f]]
    /\ UNCHANGED <<notCleanup, cleanupFns, cleanupRun, kret, karg, kfns,
                   katcall, ksnaps, kran, kdone, kcalls>>

\* a flow calls runCleanup
KCallRunCleanup(f) ==
    /\ kpc[f] = "idle"
    /\ kcalls < MaxCleanupCalls
    /\ kcalls' = kcalls + 1
    /\ kpc' = [kpc EXCEPT ![f] = "c_lock"]
    /\ kret' = [kret EXCEPT ![f] = "idle"]
    /\ katcall' = [katcall EXCEPT ![f] = cleanupFns]
    /\ UNCHANGED <<notCleanup, cleanupMu, cleanupFns, cleanupRun, karg, kfns,
                   ksnaps, kran, kdone>>

\* runCleanup, line 21: cleanupMu.Lock()
KRunLock(f) ==
    /\ kpc[f] = "c_lock"
    /\ canTake(cleanupMu)
    /\ cleanupMu' = f
    /\ kpc' = [kpc EXCEPT ![f] = "c_check"]
    /\ UNCHANGED <<notCleanup, cleanupFns, cleanupRun, kret, karg, kfns,
                   katcall, ksnaps, kran, kdone, kcalls>>

\* runCleanup, lines 22-30: return when cleanupRun is set, else set it and
\* copy the registry in reverse
KRunCheck(f) ==
    /\ kpc[f] = "c_check"
    /\ IF alreadyRun(cleanupRun)
       THEN /\ cleanupMu' = "none"
            /\ kpc' = [kpc EXCEPT ![f] = kret[f]]
            /\ UNCHANGED <<cleanupRun, kfns, ksnaps>>
       ELSE /\ cleanupRun' = TRUE
            /\ kfns' = [kfns EXCEPT ![f] = reversed(cleanupFns)]
            /\ ksnaps' = Append(ksnaps, [by |-> f, atCall |-> katcall[f],
                                          fns |-> cleanupFns])
            /\ kpc' = [kpc EXCEPT ![f] = "c_unlock"]
            /\ UNCHANGED cleanupMu
    /\ UNCHANGED <<notCleanup, cleanupFns, kret, karg, katcall, kran, kdone,
                   kcalls>>

\* runCleanup, line 31: cleanupMu.Unlock()
KRunUnlock(f) ==
    /\ kpc[f] = "c_unlock"
    /\ cleanupMu' = "none"
    /\ kpc' = [kpc EXCEPT ![f] = "c_loop"]
    /\ UNCHANGED <<notCleanup, cleanupFns, cleanupRun, kret, karg, kfns,
                   katcall, ksnaps, kran, kdone, kcalls>>

\* runCleanup, lines 33-35: `for _, fn := range fns { fn() }`; fn runs up
\* to its call of registerCleanup or runCleanup, if it makes one
KRunLoop(f) ==
    /\ kpc[f] = "c_loop"
    /\ IF kfns[f] = << >>
       THEN /\ kpc' = [kpc EXCEPT ![f] = "idle"]
            /\ kdone' = TRUE
            /\ UNCHANGED <<kfns, kran, kret, karg>>
       ELSE LET fn == Head(kfns[f])
            IN  /\ kfns' = [kfns EXCEPT ![f] = Tail(@)]
                /\ kran' = Append(kran, fn)
                /\ UNCHANGED kdone
                /\ CASE fn = "registers" ->
                           /\ kpc' = [kpc EXCEPT ![f] = "r_entry"]
                           /\ karg' = [karg EXCEPT ![f] = "plain"]
                           /\ kret' = [kret EXCEPT ![f] = "c_loop"]
                     [] fn = "reruns" ->
                           /\ kpc' = [kpc EXCEPT ![f] = "c_lock"]
                           /\ kret' = [kret EXCEPT ![f] = "c_loop"]
                           /\ UNCHANGED karg
                     [] OTHER -> UNCHANGED <<kpc, kret, karg>>
    /\ UNCHANGED <<notCleanup, cleanupMu, cleanupFns, cleanupRun, katcall,
                   ksnaps, kcalls>>

InitCleanup ==
    /\ ResolverIdle
    /\ PipelineIdle
    /\ InstallIdle
    /\ LogIdle
    /\ StoreIdle
    /\ CycleIdle
    /\ CleanupStart

NextCleanup ==
    \E f \in KFlows :
        \/ KCallRegister(f) \/ KRegEntry(f) \/ KRegLock(f) \/ KRegAppend(f)
        \/ KRegUnlock(f)
        \/ KCallRunCleanup(f) \/ KRunLock(f) \/ KRunCheck(f)
        \/ KRunUnlock(f) \/ KRunLoop(f)

SpecCleanup == InitCleanup /\ [][NextCleanup]_vars

\* ------------------------------------------------------------------------
\* resolveTools (installer.go:80-98) one step at a time, on dependency
\* maps that may contain cycles, with the calls of visit on a stack.
\* ------------------------------------------------------------------------

\* the prerequisite lists a tool may declare: up to two tools, itself
\* included
DepLists ==
    {<< >>} \cup {<<x>> : x \in Nodes}
        \cup {<<x, y>> : x \in Nodes, y \in Nodes}

\* mutant: the tool is not marked before its prerequisites are walked
markNever(t, st) == st

\* `visited[t] = true`
mark(t, st) == [st EXCEPT !.visited = @ \cup {t}]

InitCycle ==
    /\ ResolverIdle
    /\ PipelineIdle
    /\ InstallIdle
    /\ LogIdle
    /\ StoreIdle
    /\ CleanupStart
    /\ cgraph \in [Nodes -> DepLists]
    /\ crequested \in {<<x>> : x \in Nodes}
    /\ cst = [visited |-> {}, order |-> << >>]
    /\ cstack = << >>
    /\ cidx = 1
    /\ cpc = "run"

\* the innermost call of visit
Top == cstack[Len(cstack)]
Pop == SubSeq(cstack, 1, Len(cstack) - 1)

\* `for _, t := range requested { visit(t) }` and `return order`
CLoop ==
    /\ cpc = "run"
    /\ cstack = << >>
    /\ IF cidx > Len(crequested)
       THEN cpc' = "done" /\ UNCHANGED <<cstack, cidx>>
       ELSE /\ cstack' = <<[t |-> crequested[cidx], i |-> 0]>>
            /\ cidx' = cidx + 1
            /\ UNCHANGED cpc
    /\ UNCHANGED <<notCycle, cgraph, crequested, cst>>

\* visit, lines 84-87: return when t is visited, else mark it
CVisit ==
    /\ cpc = "run"
    /\ cstack # << >>
    /\ Top.i = 0
    /\ IF alreadyVisited(Top.t, cst)
       THEN cstack' = Pop /\ UNCHANGED cst
       ELSE /\ cst' = mark(Top.t, cst)
            /\ cstack' = [cstack EXCEPT ![Len(cstack)].i = 1]
    /\ UNCHANGED <<notCycle, cgraph, crequested, cidx, cpc>>

\* visit, lines 88-91: call visit for the next prerequisite, or append t
\* to order and return
CDeps ==
    /\ cpc = "run"
    /\ cstack # << >>
    /\ Top.i > 0
    /\ IF Top.i <= Len(cgraph[Top.t])
       THEN /\ cstack' = Append([cstack EXCEPT ![Len(cstack)].i = @ + 1],
                                [t |-> cgraph[Top.t][Top.i], i |-> 0])
            /\ UNCHANGED cst
       ELSE /\ cst' = place(Top.t, cst)
            /\ cstack' = Pop
    /\ UNCHANGED <<notCycle, cgraph, crequested, cidx, cpc>>

NextCycle == CLoop \/ CVisit \/ CDeps

\* the resolver is a sequential function: it takes its next step
SpecCycle == InitCycle /\ [][NextCycle]_vars /\ WF_vars(NextCycle)

\* ------------------------------------------------------------------------
\* Resolver and phase-split properties (checked under SpecResolve)
\* ------------------------------------------------------------------------

RECURSIVE Prereqs(_)

\* the transitive prerequisites of a tool, read off the dependency map
Prereqs(t) == UNION {{d} \cup Prereqs(d) : d \in Range(depMap[t])}

\* C1: resolveTools returns every requested tool and every transitive
\* prerequisite of one, no other tool, each exactly once, and every tool
\* at a later index than each of its prerequisites.
C1_ResolveClosedOnceOrdered ==
    rpc # "input" =>
        /\ Range(order) = UNION {{t} \cup Prereqs(t) : t \in Range(requested)}
        /\ \A i, j \in DOMAIN order : i # j => order[i] # order[j]
        /\ \A i \in DOMAIN order : \A d \in Prereqs(order[i]) :
              \E j \in DOMAIN order : order[j] = d /\ j < i

\* a request with a duplicate and missing prerequisites has been resolved
C1_Witness ==
    /\ rpc = "resolved"
    /\ requested = <<"gnoc_helper", "gnoc_helper">>
    /\ Len(order) = 8

\* first occurrences of a sequence, in order
Dedup(s) ==
    SelectSeq([i \in DOMAIN s |-> [x |-> s[i], i |-> i]],
              LAMBDA e : \A j \in 1..(e.i - 1) : s[j] # e.x)

Items(s) == [i \in DOMAIN s |-> s[i].x]

RECURSIVE PostOrder(_), Flatten(_)

Flatten(ss) == IF ss = << >> THEN << >> ELSE Head(ss) \o Flatten(Tail(ss))

\* reference: the post-order walk of one tool, written without a visited set
PostOrder(t) ==
    Items(Dedup(Flatten([i \in DOMAIN depMap[t] |-> PostOrder(depMap[t][i])])
                \o <<t>>))

\* reference: requests in request order, first placement wins
PostOrderReference(req) ==
    Items(Dedup(Flatten([i \in DOMAIN req |-> PostOrder(req[i])])))

\* C2: resolveTools equals the depth-first post-order reference; the chain
\* pyenv_venv_ncpcli -> python396 -> pyenv -> homebrew -> xcode resolves to
\* [xcode, homebrew, pyenv, python396, pyenv_venv_ncpcli].
C2_ResolveIsPostOrder ==
    rpc # "input" =>
        /\ order = PostOrderReference(requested)
        /\ requested = <<"pyenv_venv_ncpcli">> =>
              order = <<"xcode", "homebrew", "pyenv", "python396",
                        "pyenv_venv_ncpcli">>

\* the chain request has been resolved
C2_Witness ==
    /\ rpc = "resolved"
    /\ requested = <<"pyenv_venv_ncpcli">>
    /\ Len(order) = 5

\* C3: resolveTools is idempotent: resolving its own output returns the
\* same sequence.
C3_ResolveIdempotent ==
    rpc \in {"reresolved", "classified"} => again = order

\* a multi-tool plan has been resolved a second time
C3_Witness ==
    /\ rpc = "reresolved"
    /\ requested = <<"hops_cli", "iterm2">>
    /\ Len(again) = 7

\* number of plan positions up to i whose tool is (is not) a phase-1 tool
CountIn(plan, i, public) ==
    Cardinality({j \in 1..i : (plan[j] \in phase1Tools) = public})

\* C4: the phase split is an order-preserving partition of the plan: the
\* k-th public tool of the plan is p1[k], the k-th private tool is p3[k],
\* and nothing else is in p1 or p3.
C4_SplitPartitionsInOrder ==
    rpc = "classified" =>
        /\ Len(parts.p1) + Len(parts.p3) = Len(order)
        /\ Range(parts.p1) \subseteq phase1Tools
        /\ Range(parts.p3) \cap phase1Tools = {}
        /\ \A i \in DOMAIN order :
              LET public == order[i] \in phase1Tools
                  k == CountIn(order, i, public)
                  part == IF public THEN parts.p1 ELSE parts.p3
              IN  k \in DOMAIN part /\ part[k] = order[i]

\* a plan with several tools on both sides has been split
C4_Witness ==
    /\ rpc = "classified"
    /\ Len(parts.p1) >= 2
    /\ Len(parts.p3) >= 2

\* ------------------------------------------------------------------------
\* Properties of the run (checked under Spec)
\* ------------------------------------------------------------------------

\* C5: fail-fast: once an installer has returned a failure it is the last
\* installer invoked, the run is on its way to exit status 1, and Run State
\* holds entries only for tools installed before the failing one.
C5_FailFast ==
    failed # "none" =>
        /\ invoked # << >>
        /\ invoked[Len(invoked)] = failed
        /\ pc \in {"logFatal", "exit"}
        /\ pc = "exit" => exitCode = 1
        /\ stateData \subseteq {invoked[i] : i \in 1..(Len(invoked) - 1)}

\* the first of several public tools failed, private tools were planned too
C5_Witness ==
    /\ pc = "exit"
    /\ Len(p1) >= 2
    /\ Len(p3) >= 1
    /\ failed = p1[1]

\* C6 (as claimed): in a real run every tool whose installer returned
\* success is recorded as completed in Run State, in memory and in the
\* state file, before anything else happens.
C6_SuccessIsRecorded ==
    ~dryRun =>
        \A t \in succeeded :
            /\ t \in stateData
            /\ fs.stateFile.exists
            /\ t \in fs.stateFile.completed

\* C7 (as claimed): Run State has been loaded by the time the engine runs;
\* no installer is invoked for a tool recorded as completed unless
\* forceReinstall is set; otherwise the installer of each tool reached by
\* the engine is invoked.
C7_LoadedAndSkipsCompleted ==
    /\ pc = "runPhase" => stateLoaded
    /\ \A i \in DOMAIN invoked : invoked[i] \in stateData => forceReinstall
    /\ (~dryRun /\ pc = "runPhase") =>
          \A j \in 1..(idx - 1) :
              (phaseTools[j] \notin stateData \/ forceReinstall)
                  => phaseTools[j] \in Range(invoked)

\* C8: an installer of a public-phase tool is invoked only before the
\* network gate is entered; an installer of a private-phase tool is
\* invoked only after the gate has returned and every public-phase tool of
\* the plan has been installed successfully.
C8_PhasesAcrossGate ==
    [][Len(invoked') = Len(invoked) + 1 =>
          LET t == invoked'[Len(invoked')]
          IN  IF t \in phase1Tools
              THEN gate = "before"
              ELSE gate = "returned" /\ Range(p1) \subseteq succeeded]_vars

\* a private-phase installer has been invoked in a plan with public tools
C8_Witness ==
    /\ Len(p1) >= 1
    /\ gate = "returned"
    /\ \E i \in DOMAIN invoked : invoked[i] \notin phase1Tools

AllConnected(r) == Len(r) = Len(hosts) /\ \A i \in DOMAIN r : r[i]

\* C9 (as claimed): waitForVPN returns only in a polling round in which
\* every endpoint connected; a round with a failed connection does not
\* return and the next round starts from the first endpoint.
C9_ReturnsOnlyWhenAllConnected ==
    [][/\ (gate # "returned" /\ gate' = "returned") => AllConnected(round')
       /\ (pc = "roundEnd" /\ ~AllConnected(round) /\ ticks' = ticks) =>
             (pc' = "dial" /\ hostIdx' = 1 /\ round' = << >>)]_vars

\* C9 (amended): outside simulate-only mode waitForVPN returns only in a
\* polling round in which every endpoint connected; a round with a failed
\* connection does not return and the next round starts from the first
\* endpoint.
C9_RealRunReturnsOnlyWhenAllConnected ==
    [][/\ (~dryRun /\ gate # "returned" /\ gate' = "returned")
             => AllConnected(round')
       /\ (pc = "roundEnd" /\ ~AllConnected(round) /\ ticks' = ticks) =>
             (pc' = "dial" /\ hostIdx' = 1 /\ round' = << >>)]_vars

\* the gate of a real run has returned after polling both endpoints
C9_Witness ==
    /\ ~dryRun
    /\ gate = "returned"
    /\ pc = "postVPN"
    /\ Len(round) = Len(hosts)

\* C10 (as claimed): while every run so far was a simulate-only run, every
\* file of the machine is as it was before the first run.
C10_DryRunChangesNoFile ==
    allDry => fs = fs0

WithoutLog(f) == [f EXCEPT !.logDir = FALSE, !.runLog = 0]

\* C10 (amended): while every run so far was a simulate-only run, the Run
\* State file, the shell startup file and every other file except the run
\* log and its directory are as before the first run, and no installer has
\* been entered.
C10_DryRunChangesOnlyTheLog ==
    allDry =>
        /\ WithoutLog(fs) = WithoutLog(fs0)
        /\ invoked = << >>

\* two simulate-only runs in a row, the second through the whole pipeline
C10_Witness ==
    /\ allDry
    /\ runs = 2
    /\ fs.runLog = 2
    /\ pc = "exit"
    /\ exitCode = 0
    /\ Len(p1) >= 1
    /\ Len(p3) >= 1

\* C11: in simulate-only mode a step of runPhase only moves to the next
\* tool: no installer is entered, nothing fails, no file and no Run State
\* entry changes.
C11_DryRunToolIsNoOp ==
    [][(dryRun /\ pc = "runPhase" /\ idx' # idx) =>
          /\ idx' = idx + 1
          /\ pc' = pc
          /\ invoked' = invoked
          /\ succeeded' = succeeded
          /\ failed' = failed
          /\ stateData' = stateData
          /\ fs' = fs]_vars

\* a simulate-only run went through both phases without entering an installer
C11_Witness ==
    /\ dryRun
    /\ pc = "done"
    /\ Len(p1) >= 1
    /\ Len(p3) >= 1
    /\ idx > Len(p3)
    /\ invoked = << >>

\* the guard strings main appends with, and how often one is in the file
ZshrcGuards == {guardHomebrew, guardPyenv, guardSleep}
Occurrences(file, g) == Cardinality({i \in DOMAIN file : file[i] = g})

OnlyNames(raw) == {TrimSpace(raw[i]) : i \in DOMAIN raw}
ValidNames(raw) == OnlyNames(raw) \cap DOMAIN validToolIDs

C15_ValidationErrorHasNoSideEffect ==
    (/\ runs = 1
     /\ pc = "exit"
     /\ exitCode = 1
     /\ onlyFlag # << >>
     /\ out.unknown # << >>
     /\ ValidNames(onlyFlag) = {})
        => (fs = fs0 /\ keepalive = "none")

\* C16: a real run with --only that returned from main with status 0 has
\* invoked, once each and with success, exactly the valid names and their
\* transitive prerequisites; the unknown names were reported and skipped.
C16_OnlyInstallsClosure ==
    (/\ onlyFlag # << >>
     /\ pc = "exit"
     /\ exitCode = 0
     /\ keepalive = "stopped")
        => /\ Range(invoked) =
                 UNION {{t} \cup Prereqs(t) : t \in ValidNames(onlyFlag)}
           /\ \A i, j \in DOMAIN invoked : i # j => invoked[i] # invoked[j]
           /\ succeeded = Range(invoked)
           /\ Range(out.unknown) = OnlyNames(onlyFlag) \ DOMAIN validToolIDs

\* a real run with an unknown and a valid name has finished with status 0
C16_Witness ==
    /\ onlyFlag = <<"bogus", "gnoc_helper">>
    /\ out.unknown = <<"bogus">>
    /\ pc = "exit"
    /\ exitCode = 0
    /\ keepalive = "stopped"
    /\ "gnoc_helper" \in succeeded

\* C17: with --list the only step of the process prints the known
\* identifiers and exits with status 0; the log is never opened, no
\* authorization requested, no preflight step run, no file changed and no
\* installer invoked, whatever the other flags are.
C17_ListHasNoSideEffect ==
    [][listFlag =>
          /\ pc \in {"main", "exit"}
          /\ ~logOpen /\ keepalive = "none"
          /\ preflight = << >> /\ invoked = << >>
          /\ pc = "main" =>
                /\ out'.listed = DOMAIN validToolIDs
                /\ pc' = "exit"
                /\ exitCode' = 0
                /\ fs' = fs]_vars

\* --list given together with --only on a real run: printed and exited 0
C17_Witness ==
    /\ listFlag
    /\ ~dryRun
    /\ onlyFlag # << >>
    /\ pc = "exit"
    /\ exitCode = 0
    /\ out.listed = DOMAIN validToolIDs

\* C18: preflight runs net check, SSH key, identity in this order and stops
\* at the first failure; after a failed step no installer is invoked and the
\* process ends with status 1.
C18_PreflightStopsAtFirstFailure ==
    LET n == Len(preflight)
    IN  /\ n <= 3
        /\ \A i \in 1..n : preflight[i].step = <<"net", "ssh", "id">>[i]
        /\ \A i \in 1..n : i < n => preflight[i].ok
        /\ (n > 0 /\ ~preflight[n].ok) =>
              /\ invoked = << >>
              /\ pc \in {"logFatal", "exit"}
              /\ pc = "exit" => exitCode = 1

\* the identity step failed after the first two steps passed, and the
\* process exited with status 1
C18_Witness ==
    /\ Len(preflight) = 3
    /\ ~preflight[3].ok
    /\ pc = "exit"
    /\ exitCode = 1

\* C20: a keepalive tick happens only while the goroutine is running and
\* the main flow has not ended; whether it succeeds or fails it leaves the
\* position of the main flow and the exit status alone; once main has
\* returned or aborted through logFatal the goroutine is stopped.
C20_KeepaliveNeverEndsRun ==
    [][/\ Len(ticks') > Len(ticks) =>
             /\ keepalive = "running"
             /\ pc # "exit"
             /\ pc' = pc
             /\ exitCode' = exitCode
       /\ (pc \in {"return", "logFatal"} /\ pc' = "exit") =>
             keepalive' # "running"]_vars

\* a tick failed during a real run that went on and finished with status 0
C20_Witness ==
    /\ ticks = <<FALSE>>
    /\ pc = "exit"
    /\ exitCode = 0
    /\ keepalive = "stopped"
    /\ invoked # << >>

\* C13 (as claimed): a call of a catalog tool's installer made when an
\* earlier call had returned nil with every sub-step done returns nil
\* without executing any sub-step.
C13_InstalledToolIsSkipped ==
    (itarget \in toolIDs /\ calls >= 1 /\ wasFull)
        => (~last.err /\ last.ran = << >>)

\* C19 (as claimed): a call that returned nil had no sub-step that failed
\* and none that ended without leaving its artifact.
C19_NoSuccessAfterFailedSubStep ==
    (calls >= 1 /\ ~last.err) => (last.failed = {} /\ last.hollow = {})

\* a flow is between Lock and Unlock of log.mu
InLogCS(f) == lpc[f] \in {"w_check", "w_encode", "w_unlock", "p_set", "p_unlock"}

\* C21: at most one flow is between Lock and Unlock of log.mu, the flow
\* that is there holds the mutex, and the phase a flow has read for its
\* record is still the current phase when the record is encoded.
C21_LogWritesAreExclusive ==
    /\ ~(InLogCS("main") /\ InLogCS("ticker"))
    /\ \A f \in Flows : InLogCS(f) => lmu = f
    /\ \A f \in Flows : lpc[f] = "w_encode" => lentry[f] = lphase

\* the goroutine waits for the mutex while the main flow is changing the
\* phase, after a record of the main flow was written
C21_Witness ==
    /\ lpc["main"] = "p_set"
    /\ lpc["ticker"] = "w_lock"
    /\ \E i \in DOMAIN records : records[i].by = "main"

\* C30 (as claimed): Encode is never called after logClose has run.
C30_NoEncodeAfterClose ==
    ~lateEncode

\* a polling round of the gate has just met an unreachable endpoint
FailedRound == pc = "roundEnd" /\ ~allUp

\* C22 (as claimed): a failed round is always followed by another round,
\* and once the gate is entered either rounds keep failing or the private
\* phase starts.
C22_GateLeadsToPrivatePhase ==
    /\ [][(FailedRound /\ ticks' = ticks) => (pc' = "dial" /\ gate' = gate)]_vars
    /\ (gate = "entered") ~> (phase = "phase3" \/ FailedRound)

\* C22 (amended): a failed round is always followed by another round; once
\* the gate is entered either rounds keep failing or waitForVPN returns; and
\* after it returned either the private phase starts or the SSH-key step
\* fails and the run goes to logFatal.
C22_GateLeadsToReturn ==
    /\ [][(FailedRound /\ ticks' = ticks) => (pc' = "dial" /\ gate' = gate)]_vars
    /\ (gate = "entered") ~> (gate = "returned" \/ FailedRound)
    /\ (gate = "returned" /\ pc = "postVPN")
          ~> (phase = "phase3" \/ pc = "logFatal")

\* the gate of a real run returned after a round in which every endpoint
\* connected, and the private phase has started
C22_Witness ==
    /\ ~dryRun
    /\ gate = "returned"
    /\ AllConnected(round)
    /\ phase = "phase3"
    /\ pc = "runPhase"
    /\ idx = 1

\* C23: the installers invoked so far are the start of the plan p1 then
\* p3, every one but possibly the last has returned success, and each
\* transitive prerequisite of an invoked tool was invoked earlier in the
\* same run and returned success.
C23_PrerequisitesInstalledFirst ==
    /\ \A i \in DOMAIN invoked :
          /\ i <= Len(p1 \o p3) /\ invoked[i] = (p1 \o p3)[i]
          /\ i < Len(invoked) => invoked[i] \in succeeded
          /\ \A d \in Prereqs(invoked[i]) :
                d \in succeeded /\ \E j \in 1..(i - 1) : invoked[j] = d
    /\ succeeded \subseteq Range(invoked)

\* a real run installed a private-phase tool whose prerequisites are in
\* both phases
C23_Witness ==
    /\ ~dryRun
    /\ phase = "phase3"
    /\ "hops_cli" \in succeeded
    /\ "sparta_pki" \in Range(p3)
    /\ "python313" \in Range(p1)

\* C27: a run whose plan has no private-phase tool never shows the VPN
\* prompt or the SSH-key dialog and never enters the gate, and goes from the
\* end of the public phase to a successful end; a run polls the gate only
\* after the VPN prompt was shown.
C27_GateOnlyForPrivateTools ==
    /\ [][/\ (Len(p3) = 0 /\ Len(p3') = 0 /\ runs' = runs)
               => /\ out'.shown = out.shown
                  /\ gate' = "before"
                  /\ round' = << >>
          /\ (pc = "checkPhase3" /\ Len(p3) = 0 /\ ticks' = ticks)
               => pc' = "return"
          /\ (pc = "return" /\ ticks' = ticks)
               => pc' = "exit" /\ exitCode' = 0
          /\ (pc = "checkPhase3" /\ Len(p3) > 0 /\ ticks' = ticks)
               => /\ pc' = "waitForVPN"
                  /\ out'.shown = Append(out.shown, "uiVPNPrompt")
                  /\ gate' = "before"
          /\ (gate' # gate /\ runs' = runs)
               => /\ Len(p3) > 0
                  /\ out.shown # << >>
                  /\ out.shown[Len(out.shown)] = "uiVPNPrompt"
          /\ (round' # round /\ runs' = runs)
               => (gate' = "entered" /\ Len(p3) > 0 /\ Len(out.shown) > 0)]_vars

\* a real run without private-phase tool has ended with exit status 0, and
\* nothing was shown
C27_Witness ==
    /\ ~dryRun
    /\ pc = "exit" /\ exitCode = 0
    /\ Len(p1) > 0 /\ Len(p3) = 0
    /\ Range(p1) \subseteq succeeded
    /\ out.shown = << >>
    /\ gate = "before"

\* C28: the call of runCleanup that runs the functions calls them in
\* reverse order of registration, each registration once, those registered
\* before the call included; only registerCleanup of a non-nil function
\* adds to the registry, and registerCleanup(nil) returns at once.
C28_CleanupRunsInReverseOrder ==
    /\ [](\A i \in DOMAIN ksnaps :
            /\ Len(ksnaps[i].atCall) <= Len(ksnaps[i].fns)
            /\ ksnaps[i].atCall = SubSeq(ksnaps[i].fns, 1, Len(ksnaps[i].atCall)))
    /\ [](ksnaps # << >> =>
            LET fns == ksnaps[1].fns
            IN  /\ Len(kran) <= Len(fns)
                /\ \A j \in DOMAIN kran : kran[j] = fns[Len(fns) + 1 - j]
                /\ kdone => Len(kran) = Len(fns))
    /\ []("nil" \notin Range(cleanupFns))
    /\ [][/\ \A f \in KFlows :
               (kpc[f] = "r_entry" /\ karg[f] = "nil" /\ kpc'[f] # kpc[f])
                   => (kpc'[f] = kret[f] /\ cleanupFns' = cleanupFns)
          /\ cleanupFns' # cleanupFns
               => \E f \in KFlows :
                     /\ karg[f] \in CleanupFuncs
                     /\ cleanupFns' = Append(cleanupFns, karg[f])]_vars

\* two different functions were registered and runCleanup has called both,
\* the second one first
C28_Witness ==
    /\ kdone
    /\ Len(kran) = 2
    /\ kran[1] # kran[2]
    /\ cleanupFns = <<kran[2], kran[1]>>

\* C29: at most one call of runCleanup goes on to run functions, whatever
\* the interleaving; no function runs before that call or more often than
\* it was registered; the flow that runs the functions does not hold
\* cleanupMu, and no flow waits for a mutex it holds itself: the holder is
\* always between its Lock and its Unlock with no call in between.
C29_CleanupRunsAtMostOnce ==
    /\ [](Len(ksnaps) <= 1)
    /\ [](cleanupRun <=> Len(ksnaps) = 1)
    /\ [](ksnaps = << >> => kran = << >>)
    /\ [](\A fn \in CleanupFuncs :
            Cardinality({j \in DOMAIN kran : kran[j] = fn})
                <= Cardinality({j \in DOMAIN cleanupFns : cleanupFns[j] = fn}))
    /\ [](\A f \in KFlows :
            /\ kpc[f] \in {"c_loop", "r_lock", "c_lock", "r_entry", "idle"}
                  => cleanupMu # f
            /\ cleanupMu = f
                  => kpc[f] \in {"r_append", "r_unlock", "c_check", "c_unlock"})
    /\ [][kran' # kran => cleanupMu # ksnaps[1].by]_vars

\* both flows called runCleanup on a registry holding a function that calls
\* runCleanup itself; the function ran once and the loop has ended
C29_Witness ==
    /\ kdone
    /\ kran = <<"reruns">>
    /\ \A f \in KFlows : katcall[f] = <<"reruns">> /\ kpc[f] = "idle"

\* the tools reached from t in cgraph by 1 to n prerequisite edges
RECURSIVE CReach(_, _)
CReach(t, n) ==
    IF n = 0 THEN {}
    ELSE UNION {{d} \cup CReach(d, n - 1) : d \in Range(cgraph[t])}

\* the tools the request reaches, and whether one of them is on a cycle
Reached ==
    Range(crequested)
        \cup UNION {CReach(t, Cardinality(Nodes)) : t \in Range(crequested)}
ReachesCycle == \E t \in Reached : t \in CReach(t, Cardinality(Nodes))

\* C25 (as stated): a request that reaches a tool on a cycle never makes
\* resolveTools return.
C25_CycleNeverReturns == ReachesCycle => cpc # "done"

\* C25 (amended): resolveTools returns on every dependency map, cyclic or
\* not: the calls of visit in progress never outnumber the tools by more
\* than one, no tool is placed twice, and the order returned holds exactly
\* the tools the request reaches; when a cycle was reached, some tool of the
\* order comes before (or is) one of its own prerequisites.
C25_CycleStillReturns ==
    /\ [](Len(cstack) <= Cardinality(Nodes) + 1)
    /\ [](\A i, j \in DOMAIN cst.order :
            cst.order[i] = cst.order[j] => i = j)
    /\ [](cpc = "done" =>
            /\ Range(cst.order) = Reached
            /\ ReachesCycle =>
                  \E i, j \in DOMAIN cst.order :
                      i <= j /\ cst.order[j] \in Range(cgraph[cst.order[i]]))
    /\ <>(cpc = "done")

\* resolveTools has returned all three tools of a map in which they form
\* one cycle
C25_Witness ==
    /\ cpc = "done"
    /\ cgraph = [t \in Nodes |->
                    IF t = "a" THEN <<"b">>
                    ELSE IF t = "b" THEN <<"c">> ELSE <<"a">>]
    /\ cst.order = <<"c", "b", "a">>

\* the tools reached from t by following between 1 and n prerequisite edges
RECURSIVE DepsWithin(_, _)
DepsWithin(t, n) ==
    IF n = 0 \/ t \notin DOMAIN depMap THEN {}
    ELSE UNION {{d} \cup DepsWithin(d, n - 1) : d \in Range(depMap[t])}

\* runTool has a case for t: some outcome of the sub-steps lets it return nil
\* (the default case returns an error whatever happens)
HasInstaller(t) ==
    /\ t \in toolIDs
    /\ \E o \in Oracles(StepsOf(t)) :
          ~runTool(t, [paths |-> {}, zshrc |-> << >>], o).err

\* C24: the catalog is well-formed: every accepted name maps to a tool
\* with a dependency entry and an installer case, every prerequisite is a
\* key of the dependency map, no tool is its own transitive prerequisite,
\* and a call of runTool never ends in the default case.
C24_CatalogIsWellFormed ==
    /\ \A n \in DOMAIN validToolIDs :
          validToolIDs[n] \in DOMAIN depMap /\ HasInstaller(validToolIDs[n])
    /\ \A t \in DOMAIN depMap : Range(depMap[t]) \subseteq DOMAIN depMap
    /\ \A t \in DOMAIN depMap :
          t \notin DepsWithin(t, Cardinality(DOMAIN depMap))
    /\ (calls > 0 /\ itarget \in Range(validToolIDs) /\ last.err)
          => last.ran # << >>

\* the installer of the tool with the longest prerequisite chain returned nil
C24_Witness ==
    /\ itarget = "gnoc_helper"
    /\ calls > 0
    /\ ~last.err
    /\ Cardinality(DepsWithin("gnoc_helper", 15)) = 7

\* C26 (as stated): what holds of the Run State store: a load that finds
\* no state file gives the empty set and no error; a markToolCompleted(t)
\* that returns nil leaves t completed, the other entries as they were and
\* the file such that a load gives the same entries; isToolCompleted
\* answers by the entries; and only resetRunState removes an entry.
C26_OnlyResetRemovesAnEntry ==
    [][/\ (slast'.op = "load" /\ sops' # sops /\ ~stateFile.exists /\ ~slast'.err)
            => completedTools' = {}
       /\ (slast'.op = "mark" /\ sops' # sops /\ ~slast'.err)
            => /\ slast'.t \in Keys(completedTools')
               /\ {e \in completedTools' : e.tool # slast'.t}
                      = {e \in completedTools : e.tool # slast'.t}
               /\ stateFile'.exists /\ stateFile'.valid
               /\ Unmarshal(stateFile'.entries) = completedTools'
       /\ (slast'.op = "is" /\ sops' # sops)
            => slast'.answer = (slast'.t \in Keys(completedTools))
       /\ (sops' # sops /\ slast'.op # "reset")
            => Keys(completedTools) \subseteq Keys(completedTools')]_vars

====
